---- MODULE Spec2Model ----
(***************************************************************************)
(* Model of the content pipeline of bridge-to-lovable:                     *)
(*   - the visual (drag-and-drop) block editor,                            *)
(*       src/components/ui/advanced-rich-text-editor.tsx                   *)
(*   - the content-section resolver hook,                                  *)
(*       src/hooks/useContentSections.ts                                   *)
(*   - the document parser,                                                *)
(*       src/utils/documentParser.ts                                       *)
(*   - the parse session and the rendering of parsed documents,            *)
(*   - the admin managers (src/components/admin/BlogManager.tsx and the    *)
(*       section manager), the auto-save of the blog form,                 *)
(*   - the public blog page, src/pages/DynamicBlog.tsx,                    *)
(*   - the test runner, src/components/admin/TestManager.tsx, and the      *)
(*       run-tests function, supabase/functions/run-tests.                 *)
(* Each subsystem has its own specification (SpecEditor, SpecResolver,     *)
(* SpecParser, SpecSession, SpecRender, SpecAdmin, SpecBlog, SpecAutoSave, *)
(* SpecPage, SpecRunner, SpecReport); the variables of the other           *)
(* subsystems stay at their initial values.                                *)
(***************************************************************************)
EXTENDS Integers, Sequences, FiniteSets, TLC

VARIABLES
    \* ---- visual editor (DragDropBlogEditor) ----
    blocks,          \* value.blocks: the ordered sequence of ContentBlock
    now,             \* the value Date.now() returns
    lastOp,          \* history: the handler that ran last (updateBlock: with its arguments)
    nOps,            \* history: user actions taken so far
    \* ---- content-section resolver (useContentSections) ----
    db,              \* the rows of the backend table content_sections
    hook,            \* "created" (before the first effect), "mounted", "unmounted"
    pagePath,        \* the hook's argument in the current render
    sections,        \* useState<ContentSection[]>([])
    loading,         \* useState(true)
    error,           \* useState<string | null>(null)
    channels,        \* the realtime channels this hook has subscribed and not removed
    fetches,         \* the calls of fetchSections that await their query
    nextFetch,       \* history: the number the next call of fetchSections gets
    nRuns,           \* history: effect runs so far
    nWrites,         \* history: changes of the table so far
    lastDone,        \* history: the last fetch that completed while mounted
    lastOk,          \* history: the last fetch that completed successfully while mounted
    \* ---- document parser (DocumentParser) ----
    upload,          \* the uploaded file: its kind and its decoded contents
    parseState,      \* "idle" before the call, "parsed" or "failed" after it
    parsed,          \* the ParsedDocument returned (with the blocks it was built from)
    parseError,      \* the message of the Error the call threw, Null when none
    raised,          \* history: the step of the call that raised, "none" when none
    seen,            \* history: the uploads parsed so far, each with its ParsedDocument
    \* ---- renderers (DynamicSection, renderBlockPreview) ----
    renderItem,      \* the content section or editor block handed to the renderer
    renderOut,       \* the element tree the renderer returned, NoTree before the call
    \* ---- admin managers (BlogManager, ContentManager) ----
    manager,         \* which manager is mounted: "blog" or "content"
    table,           \* the rows of the backend table (blogs / content_sections)
    list,            \* useState: blogs / contentSections
    formData,        \* useState: formData
    editingTarget,   \* useState: editingBlog / editingSection, Null when none
    showCreateForm,  \* useState: showCreateForm
    adminLoading,    \* useState: loading
    lastSaved,       \* useState: lastSaved (BlogManager), Null when never
    toasts,          \* the notifications raised so far, oldest first
    requests,        \* the backend requests awaiting their answer
    nextReq,         \* history: the number the next request gets
    lastStep,        \* history: the request whose answer was handled last
    \* ---- BlogManager: role, auto-save and the bulk actions ----
    userRole,        \* the userRole prop
    isAutoSaving,    \* useState: isAutoSaving
    migrating,       \* useState: migrating
    addingFeatured,  \* useState: addingFeatured
    autoDone,        \* history: the auto-saves answered so far
    nEdits,          \* history: changes of the editor's content so far
    \* ---- public blog page (DynamicBlog) ----
    pageTable,       \* the rows of the backend table blogs
    pageBlogs,       \* useState: blogs
    featuredBlogs,   \* useState: featuredBlogs
    categories,      \* useState: categories
    pageLoading,     \* useState: loading
    pageCalls,       \* the calls of fetchBlogs that await something, each with its position
    nextCall,        \* history: the number the next call of fetchBlogs gets
    pageWrites,      \* history: changes of the table by other writers so far
    pageDone,        \* history: the calls of fetchBlogs that took their first result
    \* ---- test-runner panel (TestManager) ----
    runnerRole,      \* the userRole prop
    isRunning,       \* useState: isRunning
    currentReport,   \* useState: currentReport, NoCurrent when null
    recentReports,   \* useState: recentReports
    invocation,      \* the call of the run-tests function that is awaited, NoRun when none
    runnerToast,     \* the title of the toast raised last, "" when none
    nCalls,          \* history: calls of runTests so far
    lastRun,         \* history: the call of runTests that ended last and how
    \* ---- run-tests function ----
    request,         \* the request: the revision of the function that serves it and its body
    report           \* the report the function answered with, NoReport before the call

editorVars == <<blocks, now, lastOp, nOps>>

resolverVars ==
    <<db, hook, pagePath, sections, loading, error, channels, fetches,
      nextFetch, nRuns, nWrites, lastDone, lastOk>>

parserVars == <<upload, parseState, parsed, parseError, raised, seen>>

renderVars == <<renderItem, renderOut>>

adminVars ==
    <<manager, table, list, formData, editingTarget, showCreateForm, adminLoading,
      lastSaved, toasts, requests, nextReq, lastStep>>

formVars == <<userRole, isAutoSaving, migrating, addingFeatured, autoDone, nEdits>>

pageVars ==
    <<pageTable, pageBlogs, featuredBlogs, categories, pageLoading, pageCalls, nextCall,
      pageWrites, pageDone>>

runnerVars ==
    <<runnerRole, isRunning, currentReport, recentReports, invocation, runnerToast,
      nCalls, lastRun>>

reportVars == <<request, report>>

vars ==
    <<editorVars, resolverVars, parserVars, renderVars, adminVars, formVars, pageVars,
      runnerVars, reportVars>>

----------------------------------------------------------------------------
(***************************************************************************)
(* Bounds                                                                  *)
(***************************************************************************)
MaxOps == 4        \* editor: user actions (clock ticks included) per session
MaxFetches == 2    \* resolver: calls of fetchSections per hook instance
MaxWrites == 1     \* resolver: changes of the backend table

Null == "null"


----------------------------------------------------------------------------
(***************************************************************************)
(* Visual editor                                                           *)
(***************************************************************************)

\* ContentBlock['type']
BlockTypes ==
    { "left-image-right-text", "right-image-left-text", "full-width-image",
      "full-width-text", "image-caption", "video-embed", "table", "chart" }

\* The hyphen-separated words of a type name; String.includes on these
\* eight names is membership of the word.
TypeWords(type) ==
    CASE type = "left-image-right-text" -> {"left", "image", "right", "text"}
      [] type = "right-image-left-text" -> {"right", "image", "left", "text"}
      [] type = "full-width-image"      -> {"full", "width", "image"}
      [] type = "full-width-text"       -> {"full", "width", "text"}
      [] type = "image-caption"         -> {"image", "caption"}
      [] type = "video-embed"           -> {"video", "embed"}
      [] type = "table"                 -> {"table"}
      [] type = "chart"                 -> {"chart"}

Includes(type, word) == word \in TypeWords(type)

\* { ...a, ...b }: object spread, the fields of b override those of a
Spread(a, b) ==
    [k \in (DOMAIN a) \cup (DOMAIN b) |-> IF k \in DOMAIN b THEN b[k] ELSE a[k]]

baseContent ==
    [ title |-> "", text |-> "", imageUrl |-> "", width |-> 100,
      alignment |-> "center", hasBorder |-> FALSE, hasShadow |-> FALSE,
      fontSize |-> "base", fontWeight |-> "normal", textColor |-> "#000000" ]

defaultTableData ==
    [ headers |-> <<"Header 1", "Header 2", "Header 3">>,
      rows |-> << <<"Row 1 Col 1", "Row 1 Col 2", "Row 1 Col 3">>,
                  <<"Row 2 Col 1", "Row 2 Col 2", "Row 2 Col 3">> >> ]

defaultChartData ==
    [ type |-> "bar", labels |-> <<"Jan", "Feb", "Mar">>,
      data |-> <<30, 45, 60>>, title |-> "Sample Chart" ]

\* a plausible slip: the table payload pasted into the video default
blockDefaults_leak(type) ==
    CASE type \in {"left-image-right-text", "right-image-left-text"} ->
            Spread(baseContent, [ text |-> "Add your text content here...",
                                  imageUrl |-> "https://via.placeholder.com/400x300" ])
      [] type = "full-width-image" ->
            Spread(baseContent, [ imageUrl |-> "https://via.placeholder.com/800x400",
                                  caption |-> "Image caption" ])
      [] type = "full-width-text" ->
            Spread(baseContent, [ text |-> "Add your full-width text content here...",
                                  fontSize |-> "lg" ])
      [] type = "image-caption" ->
            Spread(baseContent, [ imageUrl |-> "https://via.placeholder.com/600x400",
                                  caption |-> "Image caption" ])
      [] type = "video-embed" ->
            Spread(baseContent, [ videoUrl |-> "https://www.youtube.com/embed/dQw4w9WgXcQ",
                                  tableData |-> defaultTableData ])
      [] type = "table" -> Spread(baseContent, [ tableData |-> defaultTableData ])
      [] type = "chart" -> Spread(baseContent, [ chartData |-> defaultChartData ])

blockDefaults(type) ==
    CASE type \in {"left-image-right-text", "right-image-left-text"} ->
            Spread(baseContent, [ text |-> "Add your text content here...",
                                  imageUrl |-> "https://via.placeholder.com/400x300" ])
      [] type = "full-width-image" ->
            Spread(baseContent, [ imageUrl |-> "https://via.placeholder.com/800x400",
                                  caption |-> "Image caption" ])
      [] type = "full-width-text" ->
            Spread(baseContent, [ text |-> "Add your full-width text content here...",
                                  fontSize |-> "lg" ])
      [] type = "image-caption" ->
            Spread(baseContent, [ imageUrl |-> "https://via.placeholder.com/600x400",
                                  caption |-> "Image caption" ])
      [] type = "video-embed" ->
            Spread(baseContent, [ videoUrl |-> "https://www.youtube.com/embed/dQw4w9WgXcQ" ])
      [] type = "table" -> Spread(baseContent, [ tableData |-> defaultTableData ])
      [] type = "chart" -> Spread(baseContent, [ chartData |-> defaultChartData ])

\* `block-${Date.now()}`: the prefix followed by the decimal timestamp
BlockId(t) == "block-" \o ToString(t)

createBlock(type, t) ==
    [ id |-> BlockId(t), type |-> type, content |-> blockDefaults(type) ]

\* Array.prototype.splice(index, 1) on a 0-based index: the array without
\* the element at that index
SpliceOut(s, index) ==
    [ k \in 1..(Len(s) - 1) |-> IF k <= index THEN s[k] ELSE s[k + 1] ]

\* Array.prototype.splice(index, 0, item) on a 0-based index
SpliceIn(s, index, item) ==
    [ k \in 1..(Len(s) + 1) |->
        IF k <= index THEN s[k] ELSE IF k = index + 1 THEN item ELSE s[k - 1] ]

\* a plausible slip: the destination index corrected for the removed element
reorder_shift(s, from, to) ==
    SpliceIn(SpliceOut(s, from), IF to > from THEN to - 1 ELSE to, s[from + 1])

\* the body of handleDragEnd once a destination exists
reorder(s, from, to) ==
    SpliceIn(SpliceOut(s, from), to, s[from + 1])

\* a plausible slip: the update replaces the content instead of merging
updateBlock_replace(s, blockId, updates) ==
    [ k \in 1..Len(s) |->
        IF s[k].id = blockId
        THEN [ s[k] EXCEPT !.content = updates ]
        ELSE s[k] ]

updateBlock(s, blockId, updates) ==
    [ k \in 1..Len(s) |->
        IF s[k].id = blockId
        THEN [ s[k] EXCEPT !.content = Spread(s[k].content, updates) ]
        ELSE s[k] ]

deleteBlock(s, blockId) ==
    SelectSeq(s, LAMBDA b : b.id # blockId)

\* The updateBlock calls renderBlockSettings offers for a block
WidthChoices == {20}
TextChoices == {"", "Hello"}

SettingsUpdates(b) ==
    { [ alignment |-> a ] : a \in {"left", "center", "right"} }
    \cup (IF Includes(b.type, "image") \/ b.type = "video-embed"
          THEN { [ width |-> w ] : w \in WidthChoices } ELSE {})
    \cup (IF (Includes(b.type, "text") \/ Includes(b.type, "image"))
             /\ b.type # "full-width-image"
          THEN { [ text |-> t ] : t \in TextChoices } ELSE {})
    \cup (IF Includes(b.type, "image") /\ b.type # "video-embed"
          THEN { [ imageUrl |-> "https://example.com/image.jpg" ] }
               \cup { [ hasBorder |-> c ] : c \in BOOLEAN }
               \cup { [ hasShadow |-> c ] : c \in BOOLEAN }
          ELSE {})
    \cup (IF b.type \in {"image-caption", "full-width-image"}
          THEN { [ caption |-> "A caption" ] } ELSE {})
    \cup (IF b.type = "video-embed"
          THEN { [ videoUrl |-> "https://www.youtube.com/embed/x" ] } ELSE {})

AllSettingsUpdates == UNION { SettingsUpdates([ type |-> t ]) : t \in BlockTypes }

\* the history record of a handler other than updateBlock
Op(name) == [ op |-> name, id |-> "", upd |-> <<>> ]

EditorStart ==
    /\ blocks = <<>>
    /\ now = 0
    /\ lastOp = Op("none")
    /\ nOps = 0

\* the clock advances between two user actions
Tick ==
    /\ nOps < MaxOps
    /\ now' = now + 1
    /\ nOps' = nOps + 1
    /\ UNCHANGED <<blocks, lastOp, resolverVars, parserVars, renderVars, adminVars, formVars, pageVars, runnerVars, reportVars>>

AddBlock(type) ==
    /\ nOps < MaxOps
    /\ blocks' = Append(blocks, createBlock(type, now))
    /\ lastOp' = Op("addBlock")
    /\ nOps' = nOps + 1
    /\ UNCHANGED <<now, resolverVars, parserVars, renderVars, adminVars, formVars, pageVars, runnerVars, reportVars>>

\* a drag that ends over the list: result.destination is set
HandleDragEnd(from, to) ==
    /\ nOps < MaxOps
    /\ from \in 0..(Len(blocks) - 1)
    /\ to \in 0..(Len(blocks) - 1)
    /\ blocks' = reorder(blocks, from, to)
    /\ lastOp' = Op("dragEnd")
    /\ nOps' = nOps + 1
    /\ UNCHANGED <<now, resolverVars, parserVars, renderVars, adminVars, formVars, pageVars, runnerVars, reportVars>>

\* a drag that ends outside the list: if (!result.destination) return
HandleDragCancel ==
    /\ nOps < MaxOps
    /\ Len(blocks) > 0
    /\ lastOp' = Op("dragCancel")
    /\ nOps' = nOps + 1
    /\ UNCHANGED <<blocks, now, resolverVars, parserVars, renderVars, adminVars, formVars, pageVars, runnerVars, reportVars>>

\* the handler updateBlock(blockId, updates)
UpdateBlock(blockId, updates) ==
    /\ nOps < MaxOps
    /\ blocks' = updateBlock(blocks, blockId, updates)
    /\ lastOp' = [ op |-> "updateBlock", id |-> blockId, upd |-> updates ]
    /\ nOps' = nOps + 1
    /\ UNCHANGED <<now, resolverVars, parserVars, renderVars, adminVars, formVars, pageVars, runnerVars, reportVars>>

\* a control of the settings panel of block i (the panel of the block whose
\* settings button was pressed)
SettingsChange(i, updates) ==
    /\ nOps < MaxOps
    /\ i \in 1..Len(blocks)
    /\ updates \in SettingsUpdates(blocks[i])
    /\ UpdateBlock(blocks[i].id, updates)

\* the trash button of block i
DeleteBlock(i) ==
    /\ nOps < MaxOps
    /\ i \in 1..Len(blocks)
    /\ blocks' = deleteBlock(blocks, blocks[i].id)
    /\ lastOp' = Op("deleteBlock")
    /\ nOps' = nOps + 1
    /\ UNCHANGED <<now, resolverVars, parserVars, renderVars, adminVars, formVars, pageVars, runnerVars, reportVars>>

EditorNext ==
    \/ Tick
    \/ \E type \in BlockTypes : AddBlock(type)
    \/ \E from, to \in 0..(MaxOps - 1) : HandleDragEnd(from, to)
    \/ HandleDragCancel
    \/ \E i \in 1..MaxOps : \E u \in AllSettingsUpdates : SettingsChange(i, u)
    \/ \E i \in 1..MaxOps : DeleteBlock(i)

----------------------------------------------------------------------------
(***************************************************************************)
(* Content-section resolver                                                *)
(***************************************************************************)

Pages == {"/products", "/about"}

\* the table when the hook is created
SeedTable ==
    { [ id |-> 1, page_path |-> "/products", display_order |-> 2, visible |-> TRUE ],
      [ id |-> 2, page_path |-> "/products", display_order |-> 1, visible |-> TRUE ],
      [ id |-> 3, page_path |-> "/about", display_order |-> 1, visible |-> TRUE ],
      [ id |-> 4, page_path |-> "/products", display_order |-> 3, visible |-> FALSE ] }

\* query.eq(column, value)
Eq(rows, column, value) == { r \in rows : r[column] = value }

\* a plausible slip: the visibility filter is left out
SelectRows_all(rows, page) ==
    IF page # "" THEN Eq(rows, "page_path", page) ELSE rows

\* the rows the query of fetchSections selects: visible = true, and
\* page_path = pagePath when pagePath is not the empty string
SelectRows(rows, page) ==
    IF page # ""
    THEN Eq(Eq(rows, "visible", TRUE), "page_path", page)
    ELSE Eq(rows, "visible", TRUE)

\* .order('display_order', { ascending: true }): the orders in which the
\* backend may return the selected rows (rows of equal display_order in any order)
RECURSIVE Ordered(_)
Ordered(rows) ==
    IF rows = {} THEN { <<>> }
    ELSE UNION { { <<r>> \o s : s \in Ordered(rows \ {r}) } :
                 r \in { x \in rows : \A y \in rows : x.display_order <= y.display_order } }

\* a plausible slip: the fresh result is appended to the old contents
OnSuccess_merge(st, data) ==
    [ sections |-> st.sections \o data, error |-> st.error, loading |-> FALSE ]

\* setSections(data || []); finally setLoading(false)
OnSuccess(st, data) ==
    [ sections |-> data, error |-> st.error, loading |-> FALSE ]

\* a plausible slip: the failure blanks the list
OnFailure_clear(st, message) ==
    [ sections |-> <<>>, error |-> message, loading |-> FALSE ]

\* catch: setError(err.message); finally setLoading(false)
OnFailure(st, message) ==
    [ sections |-> st.sections, error |-> message, loading |-> FALSE ]

\* a plausible slip: the effect returns no cleanup
Cleanup_none(chs) == chs

\* the effect's cleanup: supabase.removeChannel(channel) for the channel
\* of the effect run that is being torn down
Cleanup(chs) == {}

ErrorMessages == {"Failed to fetch"}

ResolverStart ==
    /\ db = SeedTable
    /\ hook = "created"
    /\ pagePath \in {""} \cup Pages
    /\ sections = <<>>
    /\ loading = TRUE
    /\ error = Null
    /\ channels = {}
    /\ fetches = {}
    /\ nextFetch = 1
    /\ nRuns = 0
    /\ nWrites = 0
    /\ lastDone = [ id |-> 0, ok |-> TRUE ]
    /\ lastOk = [ id |-> 0, data |-> <<>> ]

\* the calls of fetchSections made in one step, one per element of pages (a
\* sequence of the pagePath each call's closure holds): setLoading(true) and
\* the query is sent; live: the component is mounted, so its setters act
CallFetchSections(pages, live) ==
    /\ nextFetch + Len(pages) - 1 <= MaxFetches
    /\ fetches' = fetches \cup
          { [ id |-> nextFetch + k - 1, page |-> pages[k], state |-> "sent",
              ok |-> FALSE, data |-> <<>>, message |-> "" ] : k \in 1..Len(pages) }
    /\ nextFetch' = nextFetch + Len(pages)
    /\ loading' = IF Len(pages) > 0 /\ live THEN TRUE ELSE loading

\* the effect body: fetchSections() and the subscription of a new channel
RunEffect(page, remaining) ==
    /\ nRuns' = nRuns + 1
    /\ CallFetchSections(<<page>>, TRUE)
    /\ channels' = remaining \cup { [ id |-> nRuns + 1, page |-> page ] }

\* the component mounts: the effect runs for the first time
Mount ==
    /\ hook = "created"
    /\ hook' = "mounted"
    /\ RunEffect(pagePath, channels)
    /\ UNCHANGED <<db, pagePath, sections, error, nWrites, lastDone, lastOk, editorVars, parserVars, renderVars, adminVars, formVars, pageVars, runnerVars, reportVars>>

\* a render with another pagePath: the cleanup of the last effect run, then
\* the effect again
ChangePagePath(page) ==
    /\ hook = "mounted"
    /\ page # pagePath
    /\ pagePath' = page
    /\ RunEffect(page, Cleanup(channels))
    /\ UNCHANGED <<db, hook, sections, error, nWrites, lastDone, lastOk, editorVars, parserVars, renderVars, adminVars, formVars, pageVars, runnerVars, reportVars>>

\* the component unmounts: the cleanup of the last effect run
Unmount ==
    /\ hook = "mounted"
    /\ hook' = "unmounted"
    /\ channels' = Cleanup(channels)
    /\ UNCHANGED <<db, pagePath, sections, loading, error, fetches, nextFetch,
                   nRuns, nWrites, lastDone, lastOk, editorVars, parserVars, renderVars, adminVars, formVars, pageVars, runnerVars, reportVars>>

\* the caller invokes refetch
Refetch ==
    /\ hook = "mounted"
    /\ CallFetchSections(<<pagePath>>, TRUE)
    /\ UNCHANGED <<db, hook, pagePath, sections, error, channels, nRuns, nWrites,
                   lastDone, lastOk, editorVars, parserVars, renderVars, adminVars, formVars, pageVars, runnerVars, reportVars>>

\* the sequence of the closure pagePaths of a set of channels, by channel id
RECURSIVE ChannelPages(_)
ChannelPages(chs) ==
    IF chs = {} THEN <<>>
    ELSE LET c == CHOOSE x \in chs : \A y \in chs : x.id <= y.id
         IN <<c.page>> \o ChannelPages(chs \ {c})

\* the rows an event of the given kind leaves in the table
TableAfter(kind, row) ==
    CASE kind = "INSERT" -> db \cup {row}
      [] kind = "UPDATE" -> { r \in db : r.id # row.id } \cup {row}
      [] kind = "DELETE" -> { r \in db : r.id # row.id }

\* the events explored: a row inserted at the front of /products, row 1
\* hidden, row 4 shown, row 3 moved to /products, row 2 deleted
Events ==
    { e \in
        { [ kind |-> "INSERT",
            row |-> [ id |-> 5, page_path |-> "/products", display_order |-> 1,
                      visible |-> TRUE ] ] }
        \cup { [ kind |-> "UPDATE", row |-> [ r EXCEPT !.visible = ~r.visible ] ] :
                 r \in { x \in db : x.id \in {1, 4} } }
        \cup { [ kind |-> "UPDATE", row |-> [ r EXCEPT !.page_path = "/products" ] ] :
                 r \in { x \in db : x.id = 3 /\ x.page_path # "/products" } }
        \cup { [ kind |-> "DELETE", row |-> r ] : r \in { x \in db : x.id = 2 } } :
        e.kind = "INSERT" => \A x \in db : x.id # e.row.id }

\* a row is inserted, updated or deleted; every subscribed channel gets the
\* postgres_changes event and its callback calls fetchSections
TableChange(ev) ==
    /\ nWrites < MaxWrites
    /\ ev \in Events
    /\ db' = TableAfter(ev.kind, ev.row)
    /\ nWrites' = nWrites + 1
    /\ CallFetchSections(ChannelPages(channels), hook = "mounted")
    /\ UNCHANGED <<hook, pagePath, sections, error, channels, nRuns, lastDone, lastOk, editorVars, parserVars, renderVars, adminVars, formVars, pageVars, runnerVars, reportVars>>

\* the backend answers the query of fetch f with the selected rows in order
Answer(f, data) ==
    /\ f \in fetches
    /\ f.state = "sent"
    /\ data \in Ordered(SelectRows(db, f.page))
    /\ fetches' = (fetches \ {f}) \cup
          { [ f EXCEPT !.state = "answered", !.ok = TRUE, !.data = data ] }
    /\ UNCHANGED <<db, hook, pagePath, sections, loading, error, channels,
                   nextFetch, nRuns, nWrites, lastDone, lastOk, editorVars, parserVars, renderVars, adminVars, formVars, pageVars, runnerVars, reportVars>>

\* the query of fetch f fails: { data: null, error }
Fail(f, message) ==
    /\ f \in fetches
    /\ f.state = "sent"
    /\ message \in ErrorMessages
    /\ fetches' = (fetches \ {f}) \cup
          { [ f EXCEPT !.state = "answered", !.ok = FALSE, !.message = message ] }
    /\ UNCHANGED <<db, hook, pagePath, sections, loading, error, channels,
                   nextFetch, nRuns, nWrites, lastDone, lastOk, editorVars, parserVars, renderVars, adminVars, formVars, pageVars, runnerVars, reportVars>>

\* the awaited query of fetch f resolves: the rest of fetchSections runs; the
\* state setters of an unmounted component do nothing
Complete(f) ==
    /\ f \in fetches
    /\ f.state = "answered"
    /\ fetches' = fetches \ {f}
    /\ LET st == [ sections |-> sections, error |-> error, loading |-> loading ]
           after == IF f.ok THEN OnSuccess(st, f.data) ELSE OnFailure(st, f.message)
       IN IF hook = "mounted"
          THEN /\ sections' = after.sections
               /\ error' = after.error
               /\ loading' = after.loading
               /\ lastDone' = [ id |-> f.id, ok |-> f.ok ]
               /\ lastOk' = IF f.ok THEN [ id |-> f.id, data |-> f.data ] ELSE lastOk
          ELSE UNCHANGED <<sections, error, loading, lastDone, lastOk>>
    /\ UNCHANGED <<db, hook, pagePath, channels, nextFetch, nRuns, nWrites, editorVars, parserVars, renderVars, adminVars, formVars, pageVars, runnerVars, reportVars>>

ResolverNext ==
    \/ Mount
    \/ \E page \in {""} \cup Pages : ChangePagePath(page)
    \/ Unmount
    \/ Refetch
    \/ \E ev \in Events : TableChange(ev)
    \/ \E f \in fetches : \E data \in Ordered(SelectRows(db, f.page)) : Answer(f, data)
    \/ \E f \in fetches : \E m \in ErrorMessages : Fail(f, m)
    \/ \E f \in fetches : Complete(f)

----------------------------------------------------------------------------
(***************************************************************************)
(* Document parser                                                         *)
(* A string is a sequence of one-character strings; rendered markup is a   *)
(* sequence whose elements are tags or characters.                         *)
(***************************************************************************)

Whitespace == {" ", "\t", "\r", "\n"}

\* the bullet glyph U+2022, one character
Bullet == "U+2022"

Digits == {"0", "1", "2", "3", "4", "5", "6", "7", "8", "9"}

\* String.prototype.trim
Trim(s) ==
    LET solid == { i \in 1..Len(s) : s[i] \notin Whitespace }
    IN IF solid = {} THEN <<>>
       ELSE SubSeq(s, CHOOSE i \in solid : \A j \in solid : i <= j,
                      CHOOSE i \in solid : \A j \in solid : i >= j)

\* String.prototype.split('\n')
Split(s) ==
    LET breaks == { i \in 1..Len(s) : s[i] = "\n" }
        starts == {1} \cup { i + 1 : i \in breaks }
        EndOf(a) == IF \E b \in breaks : b >= a
                    THEN (CHOOSE b \in breaks : b >= a /\ \A c \in breaks : c >= a => b <= c) - 1
                    ELSE Len(s)
        Nth(n) == CHOOSE a \in starts : Cardinality({ x \in starts : x < a }) = n - 1
    IN [ n \in 1..Cardinality(starts) |-> SubSeq(s, Nth(n), EndOf(Nth(n))) ]

\* the concatenation of the strings of a sequence, sep between neighbours
RECURSIVE Join(_, _)
Join(strs, sep) ==
    IF Len(strs) = 0 THEN <<>>
    ELSE IF Len(strs) = 1 THEN strs[1]
    ELSE strs[1] \o sep \o Join(Tail(strs), sep)

EndsWith(s, c) == Len(s) > 0 /\ s[Len(s)] = c

StartsWith(s, c) == Len(s) > 0 /\ s[1] = c

\* trimmedLine.match(/^\d+\./): one or more digits, then a dot
StartsWithNumberDot(s) ==
    \E n \in 1..Len(s) :
        /\ n < Len(s)
        /\ \A i \in 1..n : s[i] \in Digits
        /\ s[n + 1] = "."

\* trimmedLine.replace(/^[(bullet)\-\d+\.]\s*/, ''): one leading character of the
\* class (bullet, hyphen, digit, plus, dot) and the whitespace after it
StripMarker(s) ==
    IF Len(s) > 0 /\ s[1] \in ({Bullet, "-", "+", "."} \cup Digits)
    THEN LET rest == SubSeq(s, 2, Len(s))
             solid == { i \in 1..Len(rest) : rest[i] \notin Whitespace }
         IN IF solid = {} THEN <<>>
            ELSE SubSeq(rest, CHOOSE i \in solid : \A j \in solid : i <= j, Len(rest))
    ELSE s

HeadingMaxLen == 100
ExcerptMax == 160
ExcerptCut == 157

UntitledDocument == <<"U", "n", "t", "i", "t", "l", "e", "d", " ", "D", "o", "c", "u", "m", "e", "n", "t">>

Ellipsis == <<".", ".", ".">>

\* a plausible slip: the cut keeps ExcerptMax characters before the ellipsis
generateExcerpt_long(blks) ==
    LET paragraphBlocks == SelectSeq(blks, LAMBDA b : b.type = "paragraph")
    IN IF Len(paragraphBlocks) = 0 THEN <<>>
       ELSE LET firstParagraph == paragraphBlocks[1].content
            IN IF Len(firstParagraph) > ExcerptMax
               THEN SubSeq(firstParagraph, 1, ExcerptMax) \o Ellipsis
               ELSE firstParagraph

generateExcerpt(blks) ==
    LET paragraphBlocks == SelectSeq(blks, LAMBDA b : b.type = "paragraph")
    IN IF Len(paragraphBlocks) = 0 THEN <<>>
       ELSE LET firstParagraph == paragraphBlocks[1].content
            IN IF Len(firstParagraph) > ExcerptMax
               THEN SubSeq(firstParagraph, 1, ExcerptCut) \o Ellipsis
               ELSE firstParagraph

\* DocumentBlock; level is 0 and items is empty where the source leaves them out
Block(type, level, content, items) ==
    [ type |-> type, level |-> level, content |-> content, items |-> items ]

\* the markup of one block and the image alignment after it
RenderBlock(b, imageAlign) ==
    CASE b.type = "heading" ->
            LET level == IF b.level # 0 THEN b.level ELSE 2
            IN [ html |-> <<"<h" \o ToString(level) \o ">">> \o b.content
                          \o <<"</h" \o ToString(level) \o ">">>,
                 align |-> imageAlign ]
      [] b.type = "paragraph" ->
            [ html |-> <<"<p>">> \o b.content \o <<"</p>">>, align |-> imageAlign ]
      [] b.type = "list" ->
            IF Len(b.items) > 0
            THEN LET listType == IF b.content = <<"o", "l">> THEN "ol" ELSE "ul"
                 IN [ html |-> <<"<" \o listType \o ">">>
                               \o Join([ k \in 1..Len(b.items) |->
                                           <<"<li>">> \o b.items[k] \o <<"</li>">> ], <<>>)
                               \o <<"</" \o listType \o ">">>,
                      align |-> imageAlign ]
            ELSE [ html |-> <<>>, align |-> imageAlign ]
      [] b.type = "image" ->
            [ html |-> <<"<div class=\"image-container\" style=\"text-align: "
                          \o imageAlign \o ";\">">>
                       \o <<"<img src=\"">> \o b.content
                       \o <<"\" alt=\"Document image\" style=\"max-width: 100%; height: auto;\" />">>
                       \o <<"</div>">>,
              align |-> IF imageAlign = "left" THEN "right" ELSE "left" ]
      [] b.type = "table" -> [ html |-> b.content, align |-> imageAlign ]

\* a plausible slip: every block, image or not, switches the alignment
RECURSIVE RenderFrom_flip(_, _, _)
RenderFrom_flip(blks, k, imageAlign) ==
    IF k > Len(blks) THEN <<>>
    ELSE LET r == RenderBlock(blks[k], imageAlign)
         IN r.html \o RenderFrom_flip(blks, k + 1,
                                      IF imageAlign = "left" THEN "right" ELSE "left")

RECURSIVE RenderFrom(_, _, _)
RenderFrom(blks, k, imageAlign) ==
    IF k > Len(blks) THEN <<>>
    ELSE LET r == RenderBlock(blks[k], imageAlign)
         IN r.html \o RenderFrom(blks, k + 1, r.align)

\* a plausible slip: the alignment is kept in the class and carried from one
\* document to the next
convertBlocksToRichText_carry(blks) ==
    RenderFrom(blks, 1, IF Cardinality(seen) % 2 = 0 THEN "left" ELSE "right")

convertBlocksToRichText(blks) == RenderFrom(blks, 1, "left")

\* the block of one line after the title line
ClassifyLine(trimmedLine) ==
    IF Len(trimmedLine) < HeadingMaxLen /\ ~EndsWith(trimmedLine, ".")
    THEN Block("heading", 2, trimmedLine, <<>>)
    ELSE IF \/ StartsWith(trimmedLine, Bullet)
            \/ StartsWith(trimmedLine, "-")
            \/ StartsWithNumberDot(trimmedLine)
    THEN Block("list", 0, <<"u", "l">>, << StripMarker(trimmedLine) >>)
    ELSE Block("paragraph", 0, trimmedLine, <<>>)

\* a plausible slip: the title keeps the line's surrounding blanks
parseTextContent_raw(text) ==
    LET lines == SelectSeq(Split(text), LAMBDA line : Len(Trim(line)) > 0)
        blks == [ k \in 1..Len(lines) |->
                    IF k = 1 THEN Block("heading", 1, Trim(lines[1]), <<>>)
                    ELSE ClassifyLine(Trim(lines[k])) ]
    IN [ title |-> IF Len(lines) > 0 THEN lines[1] ELSE UntitledDocument,
         blocks |-> blks,
         content |-> convertBlocksToRichText(blks),
         excerpt |-> generateExcerpt(blks),
         images |-> <<>> ]

parseTextContent(text) ==
    LET lines == SelectSeq(Split(text), LAMBDA line : Len(Trim(line)) > 0)
        blks == [ k \in 1..Len(lines) |->
                    IF k = 1 THEN Block("heading", 1, Trim(lines[1]), <<>>)
                    ELSE ClassifyLine(Trim(lines[k])) ]
    IN [ title |-> IF Len(lines) > 0 THEN Trim(lines[1]) ELSE UntitledDocument,
         blocks |-> blks,
         content |-> convertBlocksToRichText(blks),
         excerpt |-> generateExcerpt(blks),
         images |-> <<>> ]

\* The decoded buffer of a PDF upload is a sequence of chunks: plain text, or
\* the text between a "stream" and the next "endstream" marker.
\* extractTextFromPdf: the stream contents joined by a blank and trimmed when
\* there is a stream, the whole decoded text otherwise.
extractTextFromPdf(chunks) ==
    LET streams == SelectSeq(chunks, LAMBDA c : c.stream)
    IN IF Len(streams) > 0
       THEN Trim(Join([ k \in 1..Len(streams) |-> streams[k].text ], <<" ">>))
       ELSE Join([ k \in 1..Len(chunks) |-> chunks[k].text ], <<>>)

\* ---- the markup tree mammoth's output parses to ----
\* An element has a tag, the text before its children, a src attribute
\* ("" when absent) and its child elements.
Elem(tag, text, src, kids) == [ tag |-> tag, text |-> text, src |-> src, kids |-> kids ]

\* a node and its descendants in document order: querySelectorAll('*')
RECURSIVE Preorder(_)
Preorder(nodes) ==
    IF Len(nodes) = 0 THEN <<>>
    ELSE <<nodes[1]>> \o Preorder(nodes[1].kids) \o Preorder(Tail(nodes))

\* Node.textContent
RECURSIVE TextContent(_)
TextContent(node) ==
    node.text \o Join([ k \in 1..Len(node.kids) |-> TextContent(node.kids[k]) ], <<>>)

\* Element.outerHTML
RECURSIVE OuterHTML(_)
OuterHTML(node) ==
    IF node.tag = "img"
    THEN <<"<img src=\"">> \o node.src \o <<"\">">>
    ELSE <<"<" \o node.tag \o ">">> \o node.text
         \o Join([ k \in 1..Len(node.kids) |-> OuterHTML(node.kids[k]) ], <<>>)
         \o <<"</" \o node.tag \o ">">>

HeadingLevel(tag) ==
    CASE tag = "h1" -> 1 [] tag = "h2" -> 2 [] tag = "h3" -> 3
      [] tag = "h4" -> 4 [] tag = "h5" -> 5 [] tag = "h6" -> 6

\* the blocks one element contributes (none or one)
ClassifyElement(element) ==
    LET tagName == element.tag
        content == Trim(TextContent(element))
    IN IF Len(content) = 0 /\ tagName # "img" THEN <<>>
       ELSE CASE tagName \in {"h1", "h2", "h3", "h4", "h5", "h6"} ->
                    << Block("heading", HeadingLevel(tagName), content, <<>>) >>
              [] tagName = "p" ->
                    IF Len(content) > 0 THEN << Block("paragraph", 0, content, <<>>) >>
                    ELSE <<>>
              [] tagName \in {"ul", "ol"} ->
                    LET lis == SelectSeq(Preorder(element.kids), LAMBDA n : n.tag = "li")
                        listItems == [ k \in 1..Len(lis) |-> Trim(TextContent(lis[k])) ]
                    IN IF Len(listItems) > 0
                       THEN << Block("list", 0, IF tagName = "ol" THEN <<"o", "l">>
                                                ELSE <<"u", "l">>, listItems) >>
                       ELSE <<>>
              [] tagName = "img" ->
                    IF Len(element.src) > 0
                    THEN << Block("image", 0, element.src, <<>>) >>
                    ELSE <<>>
              [] tagName = "table" ->
                    << Block("table", 0, OuterHTML(element), <<>>) >>
              [] OTHER -> <<>>

\* a plausible slip: later elements' blocks are put in front
RECURSIVE Flatten_front(_)
Flatten_front(seqs) ==
    IF Len(seqs) = 0 THEN <<>> ELSE Flatten_front(Tail(seqs)) \o seqs[1]

RECURSIVE Flatten(_)
Flatten(seqs) ==
    IF Len(seqs) = 0 THEN <<>> ELSE seqs[1] \o Flatten(Tail(seqs))

\* a plausible slip: the title is taken from the first heading block
parseHtmlContent_block(body) ==
    LET elements == Preorder(body)
        blks == Flatten([ k \in 1..Len(elements) |-> ClassifyElement(elements[k]) ])
        heads == SelectSeq(blks, LAMBDA b : b.type = "heading")
        imgs == SelectSeq(elements, LAMBDA n : n.tag = "img" /\ Len(n.src) > 0)
    IN [ title |-> IF Len(heads) > 0 THEN heads[1].content ELSE UntitledDocument,
         blocks |-> blks,
         content |-> convertBlocksToRichText(blks),
         excerpt |-> generateExcerpt(blks),
         images |-> [ k \in 1..Len(imgs) |-> imgs[k].src ] ]

parseHtmlContent(body) ==
    LET elements == Preorder(body)
        titled == SelectSeq(elements, LAMBDA n : n.tag \in {"h1", "h2", "h3", "strong"})
        titleText == IF Len(titled) > 0 THEN Trim(TextContent(titled[1])) ELSE <<>>
        blks == Flatten([ k \in 1..Len(elements) |-> ClassifyElement(elements[k]) ])
        imgs == SelectSeq(elements, LAMBDA n : n.tag = "img" /\ Len(n.src) > 0)
    IN [ title |-> IF Len(titleText) > 0 THEN titleText ELSE UntitledDocument,
         blocks |-> blks,
         content |-> convertBlocksToRichText(blks),
         excerpt |-> generateExcerpt(blks),
         images |-> [ k \in 1..Len(imgs) |-> imgs[k].src ] ]

\* ---- the uploads explored ----
MaxLines == 3      \* lines of an uploaded text
MaxElems == 3      \* top-level elements of an uploaded word document

Rep(c, n) == [ i \in 1..n |-> c ]

RawLines ==
    { <<"M", "y", " ", "T", "i", "t", "l", "e">>,
      <<"S", "h", "o", "r", "t", " ", "L", "i", "n", "e">>,
      <<"T", "h", "i", "s", " ", "i", "s", " ", "a", " ", "l", "o", "n", "g", "e", "r", " ", "p", "a", "r", "a", "g", "r", "a", "p", "h", " ", "t", "h", "a", "t", " ", "e", "n", "d", "s", " ", "w", "i", "t", "h", " ", "a", " ", "p", "e", "r", "i", "o", "d", ".">>,
      Rep("a", ExcerptMax - 1) \o <<".">>,
      Rep("a", ExcerptMax) \o <<".">>,
      Rep("b", HeadingMaxLen),
      <<"-", " ", "i", "t", "e", "m", " ", "o", "n", "e", ".">>,
      <<"1", ".", " ", "f", "i", "r", "s", "t", " ", "s", "t", "e", "p">>,
      <<" ", " ">>,
      <<" ", " ", Bullet, " ", "p", "a", "d", "d", "e", "d", " ", "p", "o", "i", "n", "t", ".", " ", " ">> }

\* the lines a text starts with: a title, a blank line (the title is then the
\* line after it), a padded line
FirstLines ==
    { <<"M", "y", " ", "T", "i", "t", "l", "e">>,
      <<" ", " ">>,
      <<" ", " ", Bullet, " ", "p", "a", "d", "d", "e", "d", " ", "p", "o", "i", "n", "t", ".", " ", " ">> }

\* a text is its lines: none, or a first line and up to MaxLines - 1 more
Texts ==
    { <<>> } \cup
    { <<first>> \o rest :
        first \in FirstLines,
        rest \in UNION { [ 1..n -> RawLines ] : n \in 0..(MaxLines - 1) } }

PdfBuffers ==
    { << [ stream |-> FALSE, text |-> Join(t, <<"\n">>) ] >> : t \in Texts }
    \cup { << [ stream |-> FALSE, text |-> <<"%", "P", "D", "F">> ],
              [ stream |-> TRUE, text |-> <<"\n">> \o Join(t, <<"\n">>) \o <<"\n">> ] >> :
           t \in { x \in Texts : Len(x) < MaxLines } }

Leaf(tag, text) == Elem(tag, text, <<>>, <<>>)

Elements ==
    { Leaf("h1", <<"H", "e", "a", "d", "i", "n", "g", " ", "O", "n", "e">>),
      Leaf("h4", <<"M", "i", "n", "o", "r">>),
      Leaf("p", Rep("a", ExcerptMax - 1) \o <<".">>),
      Leaf("p", <<" ">> \o Rep("a", ExcerptMax) \o <<".", " ">>),
      Leaf("h2", <<" ">>),
      Elem("p", <<>>, <<>>, << Leaf("strong", <<"B", "o", "l", "d">>) >>),
      Elem("img", <<>>, <<"a", ".", "p", "n", "g">>, <<>>),
      Elem("img", <<>>, <<>>, <<>>),
      Elem("p", <<"F", "i", "g", "u", "r", "e", "s", ".">>, <<>>,
           << Elem("img", <<>>, <<"b", ".", "p", "n", "g">>, <<>>),
              Elem("img", <<>>, <<"c", ".", "p", "n", "g">>, <<>>) >>),
      Elem("ul", <<>>, <<>>, << Leaf("li", <<"o", "n", "e">>), Leaf("li", <<" ", "t", "w", "o", " ">>) >>),
      Elem("table", <<>>, <<>>,
           << Elem("tr", <<>>, <<>>,
                   << Elem("td", <<>>, <<>>, << Leaf("p", <<"c", "e", "l", "l", ".">>) >>) >>) >>) }

WordBodies == UNION { [ 1..n -> Elements ] : n \in 0..MaxElems }

NoResult ==
    [ title |-> <<>>, blocks |-> <<>>, content |-> <<>>, excerpt |-> <<>>, images |-> <<>> ]

Uploads ==
    { [ kind |-> "pdf", buffer |-> b ] : b \in PdfBuffers }
    \cup { [ kind |-> "word", buffer |-> b ] : b \in WordBodies }

NoCall ==
    /\ parseState = "idle"
    /\ parsed = NoResult
    /\ parseError = Null
    /\ raised = "none"

ParserStart ==
    /\ upload \in Uploads
    /\ NoCall
    /\ seen = {}

\* the steps of a call that can raise: reading the file, converting or
\* decoding it, walking the result
WordSteps == {"arrayBuffer", "convertToHtml", "parseHtmlContent"}

PdfSteps == {"arrayBuffer", "extractTextFromPdf", "parseTextContent"}

WordFailure == "Failed to parse Word document"

PdfFailure == "Failed to parse PDF document"

\* a plausible slip: a raise in the last step still hands out the document
Outcome_partial(fault, doc, message) ==
    IF fault = "none"
    THEN [ state |-> "parsed", doc |-> doc, error |-> Null ]
    ELSE [ state |-> "failed",
           doc |-> IF fault \in {"parseHtmlContent", "parseTextContent"}
                   THEN doc ELSE NoResult,
           error |-> message ]

\* try { ... return doc } catch (error) { throw new Error(message) }
Outcome(fault, doc, message) ==
    IF fault = "none"
    THEN [ state |-> "parsed", doc |-> doc, error |-> Null ]
    ELSE [ state |-> "failed", doc |-> NoResult, error |-> message ]

\* the call settles with outcome out
Settle(fault, out) ==
    /\ parseState' = out.state
    /\ parsed' = out.doc
    /\ parseError' = out.error
    /\ raised' = fault
    /\ seen' = IF out.state = "parsed"
               THEN seen \cup { [ upload |-> upload,
                                  doc |-> [ title |-> out.doc.title,
                                            content |-> out.doc.content,
                                            excerpt |-> out.doc.excerpt,
                                            images |-> out.doc.images ] ] }
               ELSE seen

\* DocumentParser.parseWordDocument: mammoth's markup, then parseHtmlContent
ParseWordDocument ==
    /\ parseState = "idle"
    /\ upload.kind = "word"
    /\ \E fault \in {"none"} \cup WordSteps :
          Settle(fault, Outcome(fault, parseHtmlContent(upload.buffer), WordFailure))
    /\ UNCHANGED <<upload, editorVars, resolverVars, renderVars, adminVars, formVars, pageVars, runnerVars, reportVars>>

\* DocumentParser.parsePdfDocument: extractTextFromPdf, then parseTextContent
ParsePdfDocument ==
    /\ parseState = "idle"
    /\ upload.kind = "pdf"
    /\ \E fault \in {"none"} \cup PdfSteps :
          Settle(fault, Outcome(fault, parseTextContent(extractTextFromPdf(upload.buffer)),
                                PdfFailure))
    /\ UNCHANGED <<upload, editorVars, resolverVars, renderVars, adminVars, formVars, pageVars, runnerVars, reportVars>>

ParserNext ==
    \/ ParseWordDocument
    \/ ParsePdfDocument

\* ---- several calls, one after the other ----
\* short files: the static methods are called again and again on them
SessionLines == { <<"T">>, <<"a", ".">>, <<"-", " ", "x", ".">> }

SessionElements ==
    { Leaf("h1", <<"T">>),
      Leaf("p", <<"a", ".">>),
      Elem("img", <<>>, <<"a", ".", "p", "n", "g">>, <<>>),
      Elem("img", <<>>, <<"b", ".", "p", "n", "g">>, <<>>) }

SessionUploads ==
    { [ kind |-> "pdf", buffer |-> << [ stream |-> FALSE, text |-> Join(t, <<"\n">>) ] >> ] :
        t \in UNION { [ 1..n -> SessionLines ] : n \in 0..MaxLines } }
    \cup { [ kind |-> "word", buffer |-> b ] :
             b \in UNION { [ 1..n -> SessionElements ] : n \in 0..MaxElems } }

\* the files a session may pass besides the one it starts with
OtherFiles ==
    { [ kind |-> "word",
        buffer |-> << Elem("img", <<>>, <<"c", ".", "p", "n", "g">>, <<>>) >> ],
      [ kind |-> "pdf",
        buffer |-> << [ stream |-> FALSE, text |-> <<"N", "o", "t", "e">> ] >> ] }

SessionStart ==
    /\ upload \in SessionUploads
    /\ NoCall
    /\ seen = {}

\* the caller passes a file to the parser once more: the same file, a file
\* parsed before, or another one
CallAgain(u) ==
    /\ parseState # "idle"
    /\ upload' = u
    /\ parseState' = "idle"
    /\ parsed' = NoResult
    /\ parseError' = Null
    /\ raised' = "none"
    /\ UNCHANGED <<seen, editorVars, resolverVars, renderVars, adminVars, formVars, pageVars, runnerVars, reportVars>>

SessionNext ==
    \/ ParseWordDocument
    \/ ParsePdfDocument
    \/ \E u \in {upload} \cup { r.upload : r \in seen } \cup OtherFiles : CallAgain(u)

----------------------------------------------------------------------------
(***************************************************************************)
(* Renderers                                                               *)
(* A rendered element tree is its layout (the root element the branch      *)
(* returns) and the sequence of the nodes that show data, each a pair of   *)
(* its tag and its value.                                                  *)
(***************************************************************************)

SectionTypes == {"hero", "feature", "stats", "cta", "product", "solution", "image", "text"}

\* cond && <node />
When(cond, node) == IF cond THEN <<node>> ELSE <<>>

\* object[key], Null when the object has no such key
Field(object, key) == IF key \in DOMAIN object THEN object[key] ELSE Null

\* DynamicSection.renderContent
renderContent(section) ==
    LET title == section.title
        content == section.content
        img == When(section.image_url # "", <<"img", section.image_url>>)
        buttons == When("buttons" \in section.data.keys, <<"buttons", section.data.buttons>>)
        features == When("features" \in section.data.keys, <<"features", section.data.features>>)
        stats == When("stats" \in section.data.keys, <<"stats", section.data.stats>>)
        type == section.section_type
    IN CASE type = "hero" ->
              [ layout |-> "hero",
                nodes |-> << <<"h1", title>>, <<"p", content>> >> \o buttons \o img ]
         [] type = "feature" ->
              [ layout |-> "feature",
                nodes |-> << <<"h2", title>>, <<"p", content>> >> \o img \o features ]
         [] type = "stats" ->
              [ layout |-> "stats",
                nodes |-> << <<"h2", title>>, <<"p", content>> >> \o stats ]
         [] type = "cta" ->
              [ layout |-> "cta",
                nodes |-> << <<"h2", title>>, <<"p", content>> >> \o buttons \o img ]
         [] type \in {"product", "solution"} ->
              [ layout |-> "card",
                nodes |-> << <<"h3", title>>, <<"p", content>> >> \o img \o features ]
         [] type = "image" ->
              [ layout |-> "image",
                nodes |-> img \o When(title # "", <<"h3", title>>)
                              \o When(content # <<>>, <<"p", content>>) ]
         [] OTHER ->
              [ layout |-> "text",
                nodes |-> When(title # "", <<"h3", title>>)
                          \o (IF content # <<>>
                              THEN LET paragraphs == Split(content)
                                   IN [ k \in 1..Len(paragraphs) |-> <<"p", paragraphs[k]>> ]
                              ELSE <<>>)
                          \o img ]

\* the <img> of an image archetype
PreviewImage(content) ==
    <<"img", [ src |-> content.imageUrl, width |-> content.width,
               border |-> content.hasBorder, shadow |-> content.hasShadow ]>>

\* the styled <div> that shows content.text
PreviewText(content) ==
    <<"text", [ text |-> content.text, fontSize |-> content.fontSize,
                fontWeight |-> content.fontWeight, color |-> content.textColor ]>>

\* renderBlockPreview
renderBlockPreview(block) ==
    LET content == block.content
        caption == When(Field(content, "caption") \notin {Null, ""},
                        <<"p", Field(content, "caption")>>)
    IN CASE block.type = "left-image-right-text" ->
              [ layout |-> "grid", nodes |-> << PreviewImage(content), PreviewText(content) >> ]
         [] block.type = "right-image-left-text" ->
              [ layout |-> "grid", nodes |-> << PreviewText(content), PreviewImage(content) >> ]
         [] block.type = "full-width-image" ->
              [ layout |-> "h-64", nodes |-> << PreviewImage(content) >> \o caption ]
         [] block.type = "full-width-text" ->
              [ layout |-> "text", nodes |-> << PreviewText(content) >> ]
         [] block.type = "image-caption" ->
              [ layout |-> "h-48", nodes |-> << PreviewImage(content) >> \o caption ]
         [] block.type = "video-embed" ->
              [ layout |-> "aspect-video",
                nodes |-> << <<"iframe", Field(content, "videoUrl")>> >> ]
         [] block.type = "table" ->
              [ layout |-> "table", nodes |-> << <<"table", Field(content, "tableData")>> >> ]
         [] block.type = "chart" ->
              [ layout |-> "chart", nodes |-> << <<"chart", Field(content, "chartData")>> >> ]
         [] OTHER ->
              [ layout |-> "div", nodes |-> << <<"div", "Unknown block type">> >> ]

\* ---- the items rendered ----
\* section.data: the keys it has, and their values
NoData == [ keys |-> {}, buttons |-> <<>>, features |-> <<>>, stats |-> <<>> ]

SomeData ==
    [ keys |-> {"buttons", "features", "stats"},
      buttons |-> << [ text |-> "Go", link |-> "/go", style |-> "primary" ] >>,
      features |-> << [ title |-> "Fast", description |-> "Quick to load" ] >>,
      stats |-> << [ number |-> "10", label |-> "Years" ] >> ]

SectionInputs ==
    { [ section_type |-> type, title |-> title, content |-> content,
        image_url |-> url, data |-> data ] :
        type \in SectionTypes \cup {"gallery", ""},
        title \in {"", "Our Story"},
        content \in { <<>>, <<"a", "\n", "b">> },
        url \in {"", "pic.png"},
        data \in {NoData, SomeData} }

\* blocks as createBlock makes them, and blocks of a persisted value whose
\* type is none of the eight
BlockInputs ==
    { createBlock(type, 0) : type \in BlockTypes }
    \cup { [ id |-> BlockId(0), type |-> type,
             content |-> Spread(baseContent, [ text |-> text ]) ] :
             type \in {"quote", "text"}, text \in {"", "Hello"} }

\* no element tree: the renderer has not been called
NoTree == [ layout |-> "", nodes |-> <<>> ]

RenderStart ==
    /\ renderItem \in { [ kind |-> "section", item |-> x ] : x \in SectionInputs }
                      \cup { [ kind |-> "block", item |-> x ] : x \in BlockInputs }
    /\ renderOut = NoTree

\* <DynamicSection section={...} />
RenderSection ==
    /\ renderOut = NoTree
    /\ renderItem.kind = "section"
    /\ renderOut' = renderContent(renderItem.item)
    /\ UNCHANGED <<renderItem, editorVars, resolverVars, parserVars, adminVars, formVars, pageVars, runnerVars, reportVars>>

\* renderBlockPreview(block) in the editor's preview
PreviewBlock ==
    /\ renderOut = NoTree
    /\ renderItem.kind = "block"
    /\ renderOut' = renderBlockPreview(renderItem.item)
    /\ UNCHANGED <<renderItem, editorVars, resolverVars, parserVars, adminVars, formVars, pageVars, runnerVars, reportVars>>

RenderNext ==
    \/ RenderSection
    \/ PreviewBlock

----------------------------------------------------------------------------
(***************************************************************************)
(* Admin managers: BlogManager and ContentManager                          *)
(* Both keep a list fetched from their table, a form, an editing target    *)
(* and a dialog flag, and send save and delete requests to the backend.    *)
(* A row and the form carry a title, a key (slug / section_key) and the    *)
(* content; the other columns travel with them unchanged.  Titles and keys *)
(* are strings; a content is 0 for the empty string and n for the text the *)
(* editor holds after its n-th change.                                     *)
(***************************************************************************)

MaxRequests == 3     \* requests sent to the backend in one behaviour

Managers == {"blog", "content"}

NoRow == [ id |-> 0, title |-> <<>>, key |-> <<>>, content |-> 0 ]

EmptyForm == [ title |-> <<>>, key |-> <<>>, content |-> 0 ]

NoStep == [ id |-> 0, op |-> "none", ok |-> TRUE ]

NewPost == <<"N", "e", "w", " ", "P", "o", "s", "t">>

HelloWorld == <<"H", "e", "l", "l", "o", " ", "W", "o", "r", "l", "d">>

TitleChoices == {NewPost}

UpperCase ==
    <<"A", "B", "C", "D", "E", "F", "G", "H", "I", "J", "K", "L", "M",
      "N", "O", "P", "Q", "R", "S", "T", "U", "V", "W", "X", "Y", "Z">>

LowerCase ==
    <<"a", "b", "c", "d", "e", "f", "g", "h", "i", "j", "k", "l", "m",
      "n", "o", "p", "q", "r", "s", "t", "u", "v", "w", "x", "y", "z">>

\* String.prototype.toLowerCase
toLowerCase(s) ==
    [ i \in 1..Len(s) |->
        IF \E k \in 1..26 : UpperCase[k] = s[i]
        THEN LowerCase[CHOOSE k \in 1..26 : UpperCase[k] = s[i]]
        ELSE s[i] ]

\* the characters the class [^a-z0-9 -] leaves in place
SlugChars == { LowerCase[k] : k \in 1..26 } \cup Digits \cup {" ", "-"}

\* s without its leading characters of the set
RECURSIVE DropRun(_, _)
DropRun(s, set) ==
    IF s # <<>> /\ Head(s) \in set THEN DropRun(Tail(s), set) ELSE s

\* replace(/[set]+/g, c): every maximal run of characters of the set becomes c
RECURSIVE ReplaceRuns(_, _, _)
ReplaceRuns(s, set, c) ==
    IF s = <<>> THEN <<>>
    ELSE IF Head(s) \in set THEN <<c>> \o ReplaceRuns(DropRun(s, set), set, c)
    ELSE <<Head(s)>> \o ReplaceRuns(Tail(s), set, c)

\* BlogManager.generateSlug
generateSlug(title) ==
    Trim(ReplaceRuns(
           ReplaceRuns(SelectSeq(toLowerCase(title), LAMBDA c : c \in SlugChars),
                       Whitespace, "-"),
           {"-"}, "-"))

\* a plausible slip: the title is tested without trim()
HasTitle_untrimmed(form) == form.title # <<>>

\* title.trim() is not empty
HasTitle(form) == Trim(form.title) # <<>>

SeedRows ==
    { [ id |-> 1, title |-> HelloWorld, key |-> generateSlug(HelloWorld), content |-> 0 ] }

ErrorToast(description) ==
    [ title |-> "Error", description |-> description, variant |-> "destructive" ]

Toast(title, description) ==
    [ title |-> title, description |-> description, variant |-> "default" ]

BackendErrors == {"permission denied"}

\* the rows a fetch returns: blogs newest first, content sections in order
RECURSIVE SortRows(_, _)
SortRows(rows, newestFirst) ==
    IF rows = {} THEN <<>>
    ELSE LET first == CHOOSE r \in rows :
                        \A o \in rows : IF newestFirst THEN r.id >= o.id ELSE r.id <= o.id
         IN <<first>> \o SortRows(rows \ {first}, newestFirst)

\* the component state the handlers' continuations write
Ui ==
    [ formData |-> formData, editingTarget |-> editingTarget,
      showCreateForm |-> showCreateForm, lastSaved |-> lastSaved, toasts |-> toasts ]

SetUi(st) ==
    /\ formData' = st.formData
    /\ editingTarget' = st.editingTarget
    /\ showCreateForm' = st.showCreateForm
    /\ lastSaved' = st.lastSaved
    /\ toasts' = st.toasts

\* handleSave after a successful answer
SaveDone(st, mgr, wasEditing) ==
    [ st EXCEPT
        !.toasts = Append(@,
            IF mgr = "blog"
            THEN Toast("Success", IF wasEditing THEN "Blog updated successfully!"
                                  ELSE "Blog created successfully!")
            ELSE Toast(IF wasEditing THEN "Content section updated successfully!"
                       ELSE "Content section created successfully!", "")),
        !.editingTarget = NoRow,
        !.showCreateForm = FALSE,
        !.formData = EmptyForm,
        !.lastSaved = IF mgr = "blog" THEN "saved" ELSE @ ]

\* handleDelete after a successful answer
DeleteDone(st, mgr) ==
    [ st EXCEPT !.toasts = Append(@, Toast(IF mgr = "blog"
                                           THEN "Blog deleted successfully!"
                                           ELSE "Content section deleted successfully!", "")) ]

\* a plausible slip: the catch block also closes the dialog and resets the form
Caught_close(st, message) ==
    [ st EXCEPT !.toasts = Append(@, ErrorToast(message)),
                !.editingTarget = NoRow,
                !.showCreateForm = FALSE,
                !.formData = EmptyForm ]

\* the catch block of handleSave and of handleDelete
Caught(st, message) ==
    [ st EXCEPT !.toasts = Append(@, ErrorToast(message)) ]

\* fetchBlogs / fetchContentSections after a failed answer
FetchCaught(st, mgr) ==
    [ st EXCEPT !.toasts = Append(@, ErrorToast(IF mgr = "blog"
                                                THEN "Failed to fetch blogs"
                                                ELSE "Failed to fetch content sections")) ]

Request(id, op, target, data) == [ id |-> id, op |-> op, target |-> target, data |-> data ]

NoCoverage == [ present |-> FALSE, lines |-> 0 ]

NoVitest == [ given |-> FALSE ]

NoReport ==
    [ totalTests |-> 0, passed |-> 0, failed |-> 0, skipped |-> 0, duration |-> 0,
      coverage |-> NoCoverage, suites |-> <<>>, answered |-> FALSE ]

NoRequest ==
    [ revision |-> "", type |-> "", vitestResults |-> NoVitest, coverage |-> NoCoverage,
      elapsed |-> 0, random |-> 0 ]

PageIdle ==
    /\ pageTable = {}
    /\ pageBlogs = <<>>
    /\ featuredBlogs = <<>>
    /\ categories = <<>>
    /\ pageLoading = TRUE
    /\ pageCalls = {}
    /\ nextCall = 1
    /\ pageWrites = 0
    /\ pageDone = {}

NoCurrent == [ id |-> 0 ]

NoRun == [ id |-> 0, type |-> "" ]

RunnerIdle ==
    /\ runnerRole = "admin"
    /\ isRunning = FALSE
    /\ currentReport = NoCurrent
    /\ recentReports = <<>>
    /\ invocation = NoRun
    /\ runnerToast = ""
    /\ nCalls = 0
    /\ lastRun = [ id |-> 0, outcome |-> "none" ]

ReportIdle ==
    /\ request = NoRequest
    /\ report = NoReport

\* the role prop of an administrator; no auto-save and no bulk action yet
FormIdle ==
    /\ userRole = "admin"
    /\ isAutoSaving = FALSE
    /\ migrating = FALSE
    /\ addingFeatured = FALSE
    /\ autoDone = {}
    /\ nEdits = 0

AdminStart ==
    /\ FormIdle
    /\ manager \in Managers
    /\ table = SeedRows
    /\ list = <<>>
    /\ formData = EmptyForm
    /\ editingTarget = NoRow
    /\ showCreateForm = FALSE
    /\ adminLoading = TRUE
    /\ lastSaved = Null
    /\ toasts = <<>>
    /\ requests = { Request(1, "fetch", 0, EmptyForm) }
    /\ nextReq = 2
    /\ lastStep = NoStep

\* the other subsystems
OutsideAdmin ==
    UNCHANGED <<editorVars, resolverVars, parserVars, renderVars, pageVars, runnerVars,
                reportVars>>

AdminFrame == OutsideAdmin /\ UNCHANGED formVars

\* the "New ..." button: setShowCreateForm(true); while loading is true the
\* manager renders only its loading notice
OpenCreate ==
    /\ ~adminLoading
    /\ ~showCreateForm
    /\ showCreateForm' = TRUE
    /\ UNCHANGED <<manager, table, list, formData, editingTarget, adminLoading, lastSaved,
                   toasts, requests, nextReq, lastStep>>
    /\ AdminFrame

\* handleEdit(row)
HandleEdit(i) ==
    /\ i \in 1..Len(list)
    /\ editingTarget' = list[i]
    /\ showCreateForm' = (IF manager = "blog" THEN TRUE ELSE showCreateForm)
    /\ formData' = [ title |-> list[i].title, key |-> list[i].key,
                     content |-> list[i].content ]
    /\ UNCHANGED <<manager, table, list, adminLoading, lastSaved, toasts, requests,
                   nextReq, lastStep>>
    /\ AdminFrame

\* the title input's onChange
TypeTitle(title) ==
    /\ showCreateForm \/ editingTarget # NoRow
    /\ formData' = [ formData EXCEPT
                       !.title = title,
                       !.key = IF manager = "blog" /\ formData.key = <<>>
                               THEN generateSlug(title) ELSE formData.key ]
    /\ UNCHANGED <<manager, table, list, editingTarget, showCreateForm, adminLoading,
                   lastSaved, toasts, requests, nextReq, lastStep>>
    /\ AdminFrame

\* the dialog is closed: onOpenChange(false) / Cancel
CloseDialog ==
    /\ showCreateForm \/ editingTarget # NoRow
    /\ showCreateForm' = FALSE
    /\ editingTarget' = NoRow
    /\ formData' = (IF manager = "blog" THEN EmptyForm ELSE formData)
    /\ UNCHANGED <<manager, table, list, adminLoading, lastSaved, toasts, requests,
                   nextReq, lastStep>>
    /\ AdminFrame

\* handleSave up to its await
HandleSave ==
    /\ nextReq < MaxRequests
    /\ showCreateForm \/ editingTarget # NoRow
    /\ IF manager = "blog" /\ ~HasTitle(formData)
       THEN /\ Len(toasts) < MaxRequests
            /\ toasts' = Append(toasts, [ title |-> "Validation Error",
                                          description |-> "Title is required",
                                          variant |-> "destructive" ])
            /\ UNCHANGED <<requests, nextReq>>
       ELSE LET data == [ formData EXCEPT
                            !.key = IF manager = "blog" /\ formData.key = <<>>
                                    THEN generateSlug(formData.title) ELSE formData.key ]
            IN /\ requests' = requests \cup
                     { IF editingTarget # NoRow
                       THEN Request(nextReq, "update", editingTarget.id, data)
                       ELSE Request(nextReq, "insert", 0, data) }
               /\ nextReq' = nextReq + 1
               /\ UNCHANGED toasts
    /\ UNCHANGED <<manager, table, list, formData, editingTarget, showCreateForm,
                   adminLoading, lastSaved, lastStep>>
    /\ AdminFrame

\* handleDelete(id) up to its await; nothing happens when confirm() is declined
HandleDelete(i, confirmed) ==
    /\ nextReq < MaxRequests
    /\ i \in 1..Len(list)
    /\ IF confirmed
       THEN /\ requests' = requests \cup { Request(nextReq, "delete", list[i].id, EmptyForm) }
            /\ nextReq' = nextReq + 1
       ELSE UNCHANGED <<requests, nextReq>>
    /\ UNCHANGED <<manager, table, list, formData, editingTarget, showCreateForm,
                   adminLoading, lastSaved, toasts, lastStep>>
    /\ AdminFrame

\* the table after request r was carried out
Applied(rows, r) ==
    CASE r.op = "update" ->
            { IF row.id = r.target
              THEN [ id |-> row.id, title |-> r.data.title, key |-> r.data.key,
                     content |-> r.data.content ]
              ELSE row :
              row \in rows }
      [] r.op = "insert" ->
            rows \cup { [ id |-> r.id + 1, title |-> r.data.title, key |-> r.data.key,
                          content |-> r.data.content ] }
      [] r.op = "delete" -> { row \in rows : row.id # r.target }
      [] OTHER -> rows

\* the backend answers request r and the handler that awaits it runs on; a
\* change of the table reaches the change channel, whose callback fetches
Respond(r, ok, message) ==
    /\ r \in requests
    /\ r.op \in {"fetch", "update", "insert", "delete"}
    /\ table' = (IF ok THEN Applied(table, r) ELSE table)
    /\ IF ok /\ r.op # "fetch" /\ Applied(table, r) # table
       THEN /\ requests' = (requests \ {r}) \cup { Request(nextReq, "fetch", 0, EmptyForm) }
            /\ nextReq' = nextReq + 1
       ELSE /\ requests' = requests \ {r}
            /\ UNCHANGED nextReq
    /\ list' = (IF ok /\ r.op = "fetch" THEN SortRows(table, manager = "blog") ELSE list)
    /\ adminLoading' = (IF r.op = "fetch" THEN FALSE ELSE adminLoading)
    /\ SetUi(CASE r.op = "fetch" -> IF ok THEN Ui ELSE FetchCaught(Ui, manager)
                [] r.op = "delete" -> IF ok THEN DeleteDone(Ui, manager)
                                      ELSE Caught(Ui, message)
                [] OTHER -> IF ok THEN SaveDone(Ui, manager, r.op = "update")
                            ELSE Caught(Ui, message))
    /\ lastStep' = [ id |-> r.id, op |-> r.op, ok |-> ok ]
    /\ UNCHANGED manager
    /\ AdminFrame

AdminNext ==
    \/ OpenCreate
    \/ \E i \in 1..2 : HandleEdit(i)
    \/ \E title \in TitleChoices : TypeTitle(title)
    \/ CloseDialog
    \/ HandleSave
    \/ \E i \in 1..2, confirmed \in BOOLEAN : HandleDelete(i, confirmed)
    \/ \E r \in requests : Respond(r, TRUE, "")
    \/ \E r \in requests, message \in BackendErrors : Respond(r, FALSE, message)

----------------------------------------------------------------------------
(***************************************************************************)
(* BlogManager in detail: the title typed one character at a time, the     *)
(* editor's content with its auto-save, and the two bulk actions.          *)
(***************************************************************************)

MaxEdits == 3        \* changes of the editor's content in one behaviour

Roles == {"admin", "user"}

\* the titles the user types: two words, one that starts with a blank, one
\* that starts with a character generateSlug drops
TypedTitles == { <<"M", "y", " ", "B">>, <<" ", "a">>, <<"!", "a">> }

\* the rows migrateStaticBlogs and addFeaturedArticles write
StaticRows ==
    { [ id |-> 101, title |-> <<"S">>, key |-> <<"s">>, content |-> 0 ] }

FeaturedRows ==
    { [ id |-> 102, title |-> <<"F">>, key |-> <<"f">>, content |-> 0 ],
      [ id |-> 103, title |-> <<"G">>, key |-> <<"g">>, content |-> 0 ] }

BlogStart ==
    /\ userRole \in Roles
    /\ isAutoSaving = FALSE
    /\ migrating = FALSE
    /\ addingFeatured = FALSE
    /\ autoDone = {}
    /\ nEdits = 0
    /\ manager = "blog"
    /\ table = SeedRows
    /\ list = <<>>
    /\ formData = EmptyForm
    /\ editingTarget = NoRow
    /\ showCreateForm = FALSE
    /\ adminLoading = TRUE
    /\ lastSaved = Null
    /\ toasts = <<>>
    /\ requests = { Request(1, "fetch", 0, EmptyForm) }
    /\ nextReq = 2
    /\ lastStep = NoStep

\* user.type: the change event of the next character of title t
TypeChar(t) ==
    /\ Len(formData.title) < Len(t)
    /\ SubSeq(t, 1, Len(formData.title)) = formData.title
    /\ TypeTitle(SubSeq(t, 1, Len(formData.title) + 1))

\* the row of the table after update({ content }).eq('id', target)
WithContent(rows, target, content) ==
    { IF row.id = target THEN [ row EXCEPT !.content = content ] ELSE row : row \in rows }

\* the editor's onChange: the form takes the content, and autoSave(content)
\* runs up to its await when a blog is being edited
EditContent ==
    /\ nEdits < MaxEdits
    /\ showCreateForm \/ editingTarget # NoRow
    /\ nEdits' = nEdits + 1
    /\ formData' = [ formData EXCEPT !.content = nEdits + 1 ]
    /\ IF editingTarget # NoRow
       THEN /\ isAutoSaving' = TRUE
            /\ requests' = requests \cup
                  { Request(nextReq, "autosave", editingTarget.id,
                            [ EmptyForm EXCEPT !.content = nEdits + 1 ]) }
            /\ nextReq' = nextReq + 1
       ELSE UNCHANGED <<isAutoSaving, requests, nextReq>>
    /\ UNCHANGED <<manager, table, list, editingTarget, showCreateForm, adminLoading,
                   lastSaved, toasts, lastStep, userRole, migrating, addingFeatured,
                   autoDone>>
    /\ OutsideAdmin

\* the backend answers the update of autoSave; autoSave runs on from its await
AutoSaveAnswered(r, ok) ==
    /\ r \in requests
    /\ r.op = "autosave"
    /\ table' = (IF ok THEN WithContent(table, r.target, r.data.content) ELSE table)
    /\ IF ok /\ WithContent(table, r.target, r.data.content) # table
       THEN /\ requests' = (requests \ {r}) \cup { Request(nextReq, "fetch", 0, EmptyForm) }
            /\ nextReq' = nextReq + 1
       ELSE /\ requests' = requests \ {r}
            /\ UNCHANGED nextReq
    /\ lastSaved' = (IF ok THEN "saved" ELSE lastSaved)
    /\ isAutoSaving' = FALSE
    /\ autoDone' = autoDone \cup { [ content |-> r.data.content, ok |-> ok ] }
    /\ lastStep' = [ id |-> r.id, op |-> r.op, ok |-> ok ]
    /\ UNCHANGED <<manager, list, formData, editingTarget, showCreateForm, adminLoading,
                   toasts, userRole, migrating, addingFeatured, nEdits>>
    /\ OutsideAdmin

\* handleMigrateBlogs up to its await; nothing happens when confirm() is declined
HandleMigrateBlogs(confirmed) ==
    /\ nextReq < MaxRequests
    /\ ~adminLoading
    /\ ~migrating
    /\ ~(showCreateForm \/ editingTarget # NoRow)
    /\ IF confirmed
       THEN /\ migrating' = TRUE
            /\ requests' = requests \cup { Request(nextReq, "migrate", 0, EmptyForm) }
            /\ nextReq' = nextReq + 1
       ELSE UNCHANGED <<migrating, requests, nextReq>>
    /\ UNCHANGED <<manager, table, list, formData, editingTarget, showCreateForm,
                   adminLoading, lastSaved, toasts, lastStep, userRole, isAutoSaving,
                   addingFeatured, autoDone, nEdits>>
    /\ OutsideAdmin

\* handleAddFeaturedArticles up to its await
HandleAddFeaturedArticles(confirmed) ==
    /\ nextReq < MaxRequests
    /\ ~adminLoading
    /\ ~addingFeatured
    /\ ~(showCreateForm \/ editingTarget # NoRow)
    /\ IF confirmed
       THEN /\ addingFeatured' = TRUE
            /\ requests' = requests \cup { Request(nextReq, "addFeatured", 0, EmptyForm) }
            /\ nextReq' = nextReq + 1
       ELSE UNCHANGED <<addingFeatured, requests, nextReq>>
    /\ UNCHANGED <<manager, table, list, formData, editingTarget, showCreateForm,
                   adminLoading, lastSaved, toasts, lastStep, userRole, isAutoSaving,
                   migrating, autoDone, nEdits>>
    /\ OutsideAdmin

\* migrateStaticBlogs / addFeaturedArticles settles and the handler runs on:
\* a toast, fetchBlogs() after a success, and the flag back to false
BulkAnswered(r, ok, message) ==
    /\ r \in requests
    /\ r.op \in {"migrate", "addFeatured"}
    /\ table' = (IF ok THEN table \cup (IF r.op = "migrate" THEN StaticRows ELSE FeaturedRows)
                 ELSE table)
    /\ IF ok
       THEN /\ requests' = (requests \ {r}) \cup { Request(nextReq, "fetch", 0, EmptyForm) }
            /\ nextReq' = nextReq + 1
       ELSE /\ requests' = requests \ {r}
            /\ UNCHANGED nextReq
    /\ toasts' = Append(toasts,
          CASE ok /\ r.op = "migrate" ->
                  Toast("Migration completed!",
                        "Static blogs have been migrated to the database")
            [] ok /\ r.op = "addFeatured" ->
                  Toast("Featured articles added!",
                        "2 new featured articles have been added to the database")
            [] ~ok /\ r.op = "migrate" ->
                  [ title |-> "Migration failed", description |-> message,
                    variant |-> "destructive" ]
            [] OTHER ->
                  [ title |-> "Failed to add featured articles", description |-> message,
                    variant |-> "destructive" ])
    /\ migrating' = (IF r.op = "migrate" THEN FALSE ELSE migrating)
    /\ addingFeatured' = (IF r.op = "addFeatured" THEN FALSE ELSE addingFeatured)
    /\ lastStep' = [ id |-> r.id, op |-> r.op, ok |-> ok ]
    /\ UNCHANGED <<manager, list, formData, editingTarget, showCreateForm, adminLoading,
                   lastSaved, userRole, isAutoSaving, autoDone, nEdits>>
    /\ OutsideAdmin

\* writing a new post, and the bulk actions
BlogNext ==
    \/ OpenCreate
    \/ \E t \in TypedTitles : TypeChar(t)
    \/ CloseDialog
    \/ HandleSave
    \/ \E confirmed \in BOOLEAN : HandleMigrateBlogs(confirmed)
    \/ \E confirmed \in BOOLEAN : HandleAddFeaturedArticles(confirmed)
    \/ \E r \in requests : Respond(r, TRUE, "")
    \/ \E r \in requests, message \in BackendErrors : Respond(r, FALSE, message)
    \/ \E r \in requests : BulkAnswered(r, TRUE, "")
    \/ \E r \in requests, message \in BackendErrors : BulkAnswered(r, FALSE, message)

\* editing the content of a post
AutoSaveNext ==
    \/ \E i \in 1..2 : HandleEdit(i)
    \/ EditContent
    \/ CloseDialog
    \/ \E r \in requests : Respond(r, TRUE, "")
    \/ \E r \in requests, ok \in BOOLEAN : AutoSaveAnswered(r, ok)

----------------------------------------------------------------------------
(***************************************************************************)
(* Public blog page: DynamicBlog.fetchBlogs                                *)
(* A blog row carries its id (a later created_at is a larger id), its      *)
(* category, its featured flag and its status.                             *)
(***************************************************************************)

Blog(id, category, featured, status) ==
    [ id |-> id, category |-> category, featured |-> featured, status |-> status ]

\* the tables the page is opened on: one featured post, or three
PageSeeds ==
    { { Blog(1, "general", TRUE, "published"), Blog(2, "technology", FALSE, "published"),
        Blog(3, "business", TRUE, "draft") },
      { Blog(1, "general", TRUE, "published"), Blog(2, "general", TRUE, "published"),
        Blog(3, "technology", TRUE, "published"), Blog(4, "ai", TRUE, "published") } }

\* the two rows addFeaturedArticles inserts
FeaturedArticles ==
    { Blog(11, "general", TRUE, "published"), Blog(12, "general", TRUE, "published") }

\* the rows other writers insert while the page is open
WrittenBlogs ==
    { Blog(21, "ai", FALSE, "published"), Blog(22, "general", TRUE, "published"),
      Blog(23, "ai", FALSE, "draft") }

\* .eq('status', 'published').order('created_at', { ascending: false })
RECURSIVE NewestFirst(_)
NewestFirst(rows) ==
    IF rows = {} THEN <<>>
    ELSE LET first == CHOOSE r \in rows : \A o \in rows : r.id >= o.id
         IN <<first>> \o NewestFirst(rows \ {first})

PublishedBlogs(rows) == NewestFirst({ r \in rows : r.status = "published" })

\* blogData.filter(blog => blog.featured)
FeaturedOf(blogData) == SelectSeq(blogData, LAMBDA b : b.featured)

\* Array.from(new Set(blogData.map(blog => blog.category)))
RECURSIVE UniqueCategories(_)
UniqueCategories(blogData) ==
    IF blogData = <<>> THEN <<>>
    ELSE LET front == UniqueCategories(SubSeq(blogData, 1, Len(blogData) - 1))
             last == blogData[Len(blogData)].category
         IN IF \E k \in 1..Len(front) : front[k] = last THEN front
            ELSE Append(front, last)

\* featuredBlogs.slice(0, 3)
displayedFeaturedBlogs ==
    SubSeq(featuredBlogs, 1, IF Len(featuredBlogs) < 3 THEN Len(featuredBlogs) ELSE 3)

\* a call of fetchBlogs: it awaits its first query
CallFetchBlogs(calls, id) ==
    calls \cup { [ id |-> id, at |-> "query", blogData |-> <<>> ] }

PageStart ==
    /\ pageTable \in PageSeeds
    /\ pageBlogs = <<>>
    /\ featuredBlogs = <<>>
    /\ categories = <<>>
    /\ pageLoading = TRUE
    /\ pageCalls = CallFetchBlogs({}, 1)
    /\ nextCall = 2
    /\ pageWrites = 0
    /\ pageDone = {}

PageFrame ==
    UNCHANGED <<editorVars, resolverVars, parserVars, renderVars, adminVars, formVars,
                runnerVars, reportVars>>

\* another writer inserts a row; the page's channel calls fetchBlogs
PageWrite(row) ==
    /\ pageWrites < MaxWrites
    /\ row \notin pageTable
    /\ pageTable' = pageTable \cup {row}
    /\ pageWrites' = pageWrites + 1
    /\ pageCalls' = CallFetchBlogs(pageCalls, nextCall)
    /\ nextCall' = nextCall + 1
    /\ UNCHANGED <<pageBlogs, featuredBlogs, categories, pageLoading, pageDone>>
    /\ PageFrame

\* the first query of call c is answered: blogs and featuredBlogs are set;
\* with fewer than three featured posts the call goes on to
\* addFeaturedArticles, otherwise it sets the categories and ends
FirstAnswered(c) ==
    /\ c \in pageCalls
    /\ c.at = "query"
    /\ LET blogData == PublishedBlogs(pageTable)
       IN /\ pageBlogs' = blogData
          /\ featuredBlogs' = FeaturedOf(blogData)
          /\ IF Len(FeaturedOf(blogData)) < 3
             THEN /\ pageCalls' = (pageCalls \ {c}) \cup
                        { [ c EXCEPT !.at = "adding", !.blogData = blogData ] }
                  /\ UNCHANGED <<categories, pageLoading>>
             ELSE /\ pageCalls' = pageCalls \ {c}
                  /\ categories' = UniqueCategories(blogData)
                  /\ pageLoading' = FALSE
    /\ pageDone' = pageDone \cup {c.id}
    /\ UNCHANGED <<pageTable, nextCall, pageWrites>>
    /\ PageFrame

\* the first query of call c fails: the outer catch logs, loading ends
FirstFailed(c) ==
    /\ c \in pageCalls
    /\ c.at = "query"
    /\ pageCalls' = pageCalls \ {c}
    /\ pageLoading' = FALSE
    /\ UNCHANGED <<pageTable, pageBlogs, featuredBlogs, categories, nextCall, pageWrites,
                   pageDone>>
    /\ PageFrame

\* addFeaturedArticles of call c resolves: its two rows are in the table (the
\* page's channel calls fetchBlogs), and the call sends its second query
AddResolved(c) ==
    /\ c \in pageCalls
    /\ c.at = "adding"
    /\ ~(FeaturedArticles \subseteq pageTable)
    /\ pageTable' = pageTable \cup FeaturedArticles
    /\ pageCalls' = CallFetchBlogs((pageCalls \ {c}) \cup { [ c EXCEPT !.at = "requery" ] },
                                   nextCall)
    /\ nextCall' = nextCall + 1
    /\ UNCHANGED <<pageBlogs, featuredBlogs, categories, pageLoading, pageWrites, pageDone>>
    /\ PageFrame

\* the rest of fetchBlogs after the inner try: the categories of the first
\* result, then finally
EndCall(c) ==
    /\ pageCalls' = pageCalls \ {c}
    /\ categories' = UniqueCategories(c.blogData)
    /\ pageLoading' = FALSE

\* addFeaturedArticles of call c rejects: the inner catch logs
AddRejected(c) ==
    /\ c \in pageCalls
    /\ c.at = "adding"
    /\ EndCall(c)
    /\ UNCHANGED <<pageTable, pageBlogs, featuredBlogs, nextCall, pageWrites, pageDone>>
    /\ PageFrame

\* the second query of call c is answered; blogs and featuredBlogs are set
\* again unless it failed
SecondAnswered(c, ok) ==
    /\ c \in pageCalls
    /\ c.at = "requery"
    /\ pageBlogs' = (IF ok THEN PublishedBlogs(pageTable) ELSE pageBlogs)
    /\ featuredBlogs' = (IF ok THEN FeaturedOf(PublishedBlogs(pageTable)) ELSE featuredBlogs)
    /\ EndCall(c)
    /\ UNCHANGED <<pageTable, nextCall, pageWrites, pageDone>>
    /\ PageFrame

PageNext ==
    \/ \E row \in WrittenBlogs : PageWrite(row)
    \/ \E c \in pageCalls : FirstAnswered(c)
    \/ \E c \in pageCalls : FirstFailed(c)
    \/ \E c \in pageCalls : AddResolved(c)
    \/ \E c \in pageCalls : AddRejected(c)
    \/ \E c \in pageCalls, ok \in BOOLEAN : SecondAnswered(c, ok)

----------------------------------------------------------------------------
(***************************************************************************)
(* Test-runner panel: TestManager.runTests                                 *)
(* A report is known by its id, the number of the call that produced it.   *)
(***************************************************************************)

MaxRuns == 11        \* calls of runTests in one behaviour

RunTypes == {"unit", "integration", "coverage", "all"}

\* a plausible slip: the list is never cut
Recent_uncut(prev, rep) == <<rep>> \o prev

\* prev => [report, ...prev.slice(0, 9)]
Recent(prev, rep) ==
    <<rep>> \o SubSeq(prev, 1, IF Len(prev) < 9 THEN Len(prev) ELSE 9)

RunnerStart ==
    /\ runnerRole \in {"admin", "user"}
    /\ isRunning = FALSE
    /\ currentReport = NoCurrent
    /\ recentReports = <<>>
    /\ invocation = NoRun
    /\ runnerToast = ""
    /\ nCalls = 0
    /\ lastRun = [ id |-> 0, outcome |-> "none" ]

RunnerFrame ==
    UNCHANGED <<editorVars, resolverVars, parserVars, renderVars, adminVars, formVars,
                pageVars, reportVars>>

\* a run button is clicked (the buttons are disabled while isRunning):
\* runTests(type) up to its return or its await
RunTests(type) ==
    /\ nCalls < MaxRuns
    /\ ~isRunning
    /\ nCalls' = nCalls + 1
    /\ IF runnerRole # "admin"
       THEN /\ runnerToast' = "Access Denied"
            /\ lastRun' = [ id |-> nCalls + 1, outcome |-> "denied" ]
            /\ UNCHANGED <<isRunning, invocation>>
       ELSE /\ isRunning' = TRUE
            /\ runnerToast' = "Getting Instructions"
            /\ invocation' = [ id |-> nCalls + 1, type |-> type ]
            /\ UNCHANGED lastRun
    /\ UNCHANGED <<runnerRole, currentReport, recentReports>>
    /\ RunnerFrame

\* the function answers with a report: runTests runs on to its end
RunSucceeded ==
    /\ invocation # NoRun
    /\ LET rep == [ id |-> invocation.id ]
       IN /\ currentReport' = rep
          /\ recentReports' = Recent(recentReports, rep)
    /\ runnerToast' = "Setup Required"
    /\ isRunning' = FALSE
    /\ invocation' = NoRun
    /\ lastRun' = [ id |-> invocation.id, outcome |-> "ok" ]
    /\ UNCHANGED <<runnerRole, nCalls>>
    /\ RunnerFrame

\* the function answers with an error: the catch block and finally
RunFailed ==
    /\ invocation # NoRun
    /\ runnerToast' = "Error"
    /\ isRunning' = FALSE
    /\ invocation' = NoRun
    /\ lastRun' = [ id |-> invocation.id, outcome |-> "failed" ]
    /\ UNCHANGED <<runnerRole, currentReport, recentReports, nCalls>>
    /\ RunnerFrame

RunnerNext ==
    \/ \E type \in RunTypes : RunTests(type)
    \/ RunSucceeded
    \/ RunFailed

----------------------------------------------------------------------------
(***************************************************************************)
(* The run-tests function, in its two revisions:                           *)
(*   supabase/functions/run-tests/index.ts (simulateTestRun) and the       *)
(*   revision that converts supplied Vitest results.                       *)
(* A test is its status and its duration; ids, names and error texts       *)
(* travel with it unchanged.                                               *)
(***************************************************************************)

MaxFiles == 2        \* files in the testResults of a supplied Vitest result

Test(status, duration) == [ status |-> status, duration |-> duration ]

RECURSIVE SumSeq(_)
SumSeq(numbers) ==
    IF numbers = <<>> THEN 0 ELSE Head(numbers) + SumSeq(Tail(numbers))

SumOf(seq, field) == SumSeq([ k \in 1..Len(seq) |-> seq[k][field] ])

NumTests(suites) == SumSeq([ k \in 1..Len(suites) |-> Len(suites[k].tests) ])

CountOf(tests, status) == Len(SelectSeq(tests, LAMBDA t : t.status = status))

\* createMockSuite
createMockSuite(testData) ==
    [ tests |-> testData,
      passed |-> CountOf(testData, "passed"),
      failed |-> CountOf(testData, "failed"),
      skipped |-> CountOf(testData, "skipped"),
      duration |-> SumOf(testData, "duration") ]

Passes(durations) == [ k \in 1..Len(durations) |-> Test("passed", durations[k]) ]

utilsSuite == createMockSuite(Passes(<<8, 12, 5, 7, 9, 25>>))

componentSuite ==
    createMockSuite(Passes(<<15, 18, 12, 14, 22, 13>>) \o <<Test("failed", 31)>>
                    \o Passes(<<19, 11>>))

hooksSuite == createMockSuite(Passes(<<16, 28, 14>>))

pageSuite ==
    createMockSuite(Passes(<<45, 67, 52, 89, 134, 23, 78, 95, 156, 98, 234>>)
                    \o <<Test("skipped", 0)>>)

apiSuite == createMockSuite(Passes(<<87, 145, 167, 123, 201>>))

\* the report whose totals are accumulated over the suites
Totalled(suites, duration, coverage) ==
    [ totalTests |-> NumTests(suites),
      passed |-> SumOf(suites, "passed"),
      failed |-> SumOf(suites, "failed"),
      skipped |-> SumOf(suites, "skipped"),
      duration |-> duration,
      coverage |-> coverage,
      suites |-> suites,
      answered |-> TRUE ]

\* simulateTestRun(type); random stands for the values of Math.random()
simulateTestRun(type, random) ==
    LET unit == IF type \in {"unit", "all"}
                THEN <<utilsSuite, componentSuite, hooksSuite>> ELSE <<>>
        integration == IF type \in {"integration", "all"}
                       THEN <<pageSuite, apiSuite>> ELSE <<>>
        coverage == IF type \in {"coverage", "all"}
                    THEN [ present |-> TRUE, lines |-> random + 75 ] ELSE NoCoverage
    IN Totalled(unit \o integration, SumOf(unit \o integration, "duration"), coverage)

\* the suites generateRealisticTestReport lists, with the counts and the
\* durations it states for them
testSuites ==
    << [ tests |-> Passes(<<12, 18, 15, 25, 22, 8, 14, 9>>),
         passed |-> 8, failed |-> 0, skipped |-> 0, duration |-> 123 ],
       [ tests |-> Passes(<<45, 78, 62, 89, 156, 34, 67, 98>>),
         passed |-> 8, failed |-> 0, skipped |-> 0, duration |-> 629 ],
       [ tests |-> Passes(<<18, 42, 15, 28>>),
         passed |-> 4, failed |-> 0, skipped |-> 0, duration |-> 103 ] >>

\* generateRealisticTestReport(type, startTime)
generateRealisticTestReport(type) ==
    Totalled(testSuites, SumOf(testSuites, "duration"),
             IF type = "coverage" THEN [ present |-> TRUE, lines |-> 85 ] ELSE NoCoverage)

\* the status convertVitestResults gives a test
ConvertedStatus(status) ==
    IF status = "passed" THEN "passed"
    ELSE IF status = "failed" THEN "failed" ELSE "skipped"

\* the suite convertVitestResults builds from one file result
ConvertedSuite(fileResult) ==
    createMockSuite(
        IF fileResult.hasAssertions
        THEN [ k \in 1..Len(fileResult.assertionResults) |->
                 Test(ConvertedStatus(fileResult.assertionResults[k].status),
                      fileResult.assertionResults[k].duration) ]
        ELSE <<>>)

\* convertVitestResults(vitestResults, coverage, startTime); elapsed is
\* endTime - startTime
convertVitestResults(vitestResults, coverage, elapsed) ==
    LET suites == IF vitestResults.hasTestResults
                  THEN [ k \in 1..Len(vitestResults.testResults) |->
                           ConvertedSuite(vitestResults.testResults[k]) ]
                  ELSE <<>>
        summed == Totalled(suites, elapsed, coverage)
    IN IF Len(suites) = 0 /\ vitestResults.numTotalTests # 0
       THEN [ summed EXCEPT !.totalTests = vitestResults.numTotalTests,
                            !.passed = vitestResults.numPassedTests,
                            !.failed = vitestResults.numFailedTests,
                            !.skipped = vitestResults.numPendingTests ]
       ELSE summed

\* createErrorReport(type, stdout, stderr, startTime): no call of it exists
createErrorReport(elapsed) ==
    [ totalTests |-> 0, passed |-> 0, failed |-> 1, skipped |-> 0, duration |-> elapsed,
      coverage |-> NoCoverage,
      suites |-> << [ tests |-> <<Test("failed", elapsed)>>, passed |-> 0, failed |-> 1,
                      skipped |-> 0, duration |-> elapsed ] >>,
      answered |-> TRUE ]

RequestTypes == {"unit", "integration", "coverage", "all", "e2e"}

\* the assertionResults of the files supplied (duration 0: none given)
FileSamples ==
    { [ hasAssertions |-> FALSE, assertionResults |-> <<>> ],
      [ hasAssertions |-> TRUE, assertionResults |-> <<Test("passed", 7)>> ],
      [ hasAssertions |-> TRUE,
        assertionResults |-> <<Test("passed", 7), Test("failed", 3)>> ],
      [ hasAssertions |-> TRUE,
        assertionResults |-> <<Test("pending", 0), Test("todo", 0)>> ],
      [ hasAssertions |-> TRUE,
        assertionResults |-> <<Test("failed", 3), Test("passed", 5), Test("skipped", 0)>> ] }

\* the summary counts of a supplied result: none, or those of a run of five
\* tests (three passed, one failed, one pending)
Summaries ==
    { [ numTotalTests |-> 0, numPassedTests |-> 0, numFailedTests |-> 0,
        numPendingTests |-> 0 ],
      [ numTotalTests |-> 5, numPassedTests |-> 3, numFailedTests |-> 1,
        numPendingTests |-> 1 ] }

VitestInputs ==
    { [ given |-> TRUE, hasTestResults |-> has, testResults |-> files,
        numTotalTests |-> sum.numTotalTests, numPassedTests |-> sum.numPassedTests,
        numFailedTests |-> sum.numFailedTests, numPendingTests |-> sum.numPendingTests ] :
        has \in BOOLEAN,
        files \in UNION { [ 1..n -> FileSamples ] : n \in 0..MaxFiles },
        sum \in Summaries }

Requests ==
    { [ revision |-> "simulate", type |-> type, vitestResults |-> NoVitest,
        coverage |-> NoCoverage, elapsed |-> 0, random |-> random ] :
        type \in RequestTypes, random \in {0, 19} }
    \cup
    { [ revision |-> "convert", type |-> type, vitestResults |-> NoVitest,
        coverage |-> NoCoverage, elapsed |-> elapsed, random |-> 0 ] :
        type \in RequestTypes, elapsed \in {0, 2} }
    \cup
    { [ revision |-> "convert", type |-> "unit", vitestResults |-> v,
        coverage |-> coverage, elapsed |-> elapsed, random |-> 0 ] :
        v \in { x \in VitestInputs : x.hasTestResults \/ x.testResults = <<>> },
        coverage \in { NoCoverage, [ present |-> TRUE, lines |-> 80 ] },
        elapsed \in {0, 2} }

ReportStart ==
    /\ request \in Requests
    /\ report = NoReport

ReportFrame ==
    UNCHANGED <<request, editorVars, resolverVars, parserVars, renderVars, adminVars,
                formVars, pageVars, runnerVars>>

\* index.ts: serve answers with simulateTestRun(type)
ServeSimulated ==
    /\ ~report.answered
    /\ request.revision = "simulate"
    /\ report' = simulateTestRun(request.type, request.random)
    /\ ReportFrame

\* the other revision, no vitestResults in the body
ServeRealistic ==
    /\ ~report.answered
    /\ request.revision = "convert"
    /\ ~request.vitestResults.given
    /\ report' = generateRealisticTestReport(request.type)
    /\ ReportFrame

\* the other revision, vitestResults in the body
ServeConverted ==
    /\ ~report.answered
    /\ request.revision = "convert"
    /\ request.vitestResults.given
    /\ report' = convertVitestResults(request.vitestResults, request.coverage,
                                       request.elapsed)
    /\ ReportFrame

ReportNext ==
    \/ ServeSimulated
    \/ ServeRealistic
    \/ ServeConverted

----------------------------------------------------------------------------
ParserIdle ==
    /\ upload = [ kind |-> "pdf", buffer |-> <<>> ]
    /\ NoCall
    /\ seen = {}

RenderIdle ==
    /\ renderItem = Null
    /\ renderOut = NoTree

AdminIdle ==
    /\ FormIdle
    /\ manager = "blog"
    /\ table = {}
    /\ list = <<>>
    /\ formData = EmptyForm
    /\ editingTarget = NoRow
    /\ showCreateForm = FALSE
    /\ adminLoading = TRUE
    /\ lastSaved = Null
    /\ toasts = <<>>
    /\ requests = {}
    /\ nextReq = 1
    /\ lastStep = NoStep

EditorInit ==
    EditorStart /\ ResolverStart /\ pagePath = "" /\ ParserIdle /\ RenderIdle /\ AdminIdle
    /\ PageIdle /\ RunnerIdle /\ ReportIdle

SpecEditor == EditorInit /\ [][EditorNext]_vars

ResolverInit == ResolverStart /\ EditorStart /\ ParserIdle /\ RenderIdle /\ AdminIdle
    /\ PageIdle /\ RunnerIdle /\ ReportIdle

SpecResolver == ResolverInit /\ [][ResolverNext]_vars

ParserInit ==
    ParserStart /\ EditorStart /\ ResolverStart /\ pagePath = "" /\ RenderIdle /\ AdminIdle
    /\ PageIdle /\ RunnerIdle /\ ReportIdle

SpecParser == ParserInit /\ [][ParserNext]_vars

SessionInit ==
    SessionStart /\ EditorStart /\ ResolverStart /\ pagePath = "" /\ RenderIdle /\ AdminIdle
    /\ PageIdle /\ RunnerIdle /\ ReportIdle

SpecSession == SessionInit /\ [][SessionNext]_vars

RenderInit ==
    RenderStart /\ EditorStart /\ ResolverStart /\ pagePath = "" /\ ParserIdle /\ AdminIdle
    /\ PageIdle /\ RunnerIdle /\ ReportIdle

SpecRender == RenderInit /\ [][RenderNext]_vars

AdminInit ==
    AdminStart /\ EditorStart /\ ResolverStart /\ pagePath = "" /\ ParserIdle /\ RenderIdle
    /\ PageIdle /\ RunnerIdle /\ ReportIdle

SpecAdmin == AdminInit /\ [][AdminNext]_vars

BlogInit ==
    BlogStart /\ EditorStart /\ ResolverStart /\ pagePath = "" /\ ParserIdle /\ RenderIdle
    /\ PageIdle /\ RunnerIdle /\ ReportIdle

SpecBlog == BlogInit /\ [][BlogNext]_vars

PageInit ==
    PageStart /\ EditorStart /\ ResolverStart /\ pagePath = "" /\ ParserIdle /\ RenderIdle
    /\ AdminIdle /\ RunnerIdle /\ ReportIdle

SpecPage == PageInit /\ [][PageNext]_vars

RunnerInit ==
    RunnerStart /\ EditorStart /\ ResolverStart /\ pagePath = "" /\ ParserIdle /\ RenderIdle
    /\ AdminIdle /\ PageIdle /\ ReportIdle

SpecRunner == RunnerInit /\ [][RunnerNext]_vars

ReportInit ==
    ReportStart /\ EditorStart /\ ResolverStart /\ pagePath = "" /\ ParserIdle /\ RenderIdle
    /\ AdminIdle /\ PageIdle /\ RunnerIdle

SpecReport == ReportInit /\ [][ReportNext]_vars

AutoSaveInit == BlogInit /\ userRole = "admin"

SpecAutoSave == AutoSaveInit /\ [][AutoSaveNext]_vars

----------------------------------------------------------------------------
(***************************************************************************)
(* Visual editor: properties                                               *)
(***************************************************************************)

\* an id no block of a session carries
AbsentId == "block-absent"

HasId(s, id) == \E k \in 1..Len(s) : s[k].id = id

\* s without its k-th element (1-based)
WithoutAt(s, k) == SubSeq(s, 1, k - 1) \o SubSeq(s, k + 1, Len(s))

\* the number of positions of s that hold x
Occurrences(s, x) == Cardinality({ k \in 1..Len(s) : s[k] = x })

SameElements(s, t) ==
    /\ Len(s) = Len(t)
    /\ \A k \in 1..Len(s) : Occurrences(s, s[k]) = Occurrences(t, s[k])

\* C1: deleteBlock(id) leaves no block with that id; when a block had the id
\* the length drops by exactly one, and deleting an absent id changes nothing.
C1_DeleteRemovesExactlyOne ==
    [][ /\ \A i \in 1..MaxOps :
              DeleteBlock(i) =>
                  /\ ~HasId(blocks', blocks[i].id)
                  /\ Len(blocks') = Len(blocks) - 1
        /\ deleteBlock(blocks, AbsentId) = blocks ]_vars

\* C2: the ids of the blocks of a session are pairwise distinct, and a
\* reorder changes no block's id.
C2_IdsPairwiseDistinct ==
    /\ [](\A i, j \in 1..Len(blocks) : i # j => blocks[i].id # blocks[j].id)
    /\ [][ \A from, to \in 0..(MaxOps - 1) :
              HandleDragEnd(from, to) =>
                  { blocks'[k].id : k \in 1..Len(blocks') }
                      = { blocks[k].id : k \in 1..Len(blocks) } ]_vars

\* C3: a drag from index from to index to moves that one block to index to
\* and keeps the others in order; the opposite drag restores the sequence;
\* a drag without destination changes nothing.
C3_ReorderMovesAndInverts ==
    [][ /\ \A from, to \in 0..(Len(blocks) - 1) :
              (lastOp'.op = "dragEnd" /\ HandleDragEnd(from, to)) =>
                  /\ SameElements(blocks', blocks)
                  /\ blocks'[to + 1] = blocks[from + 1]
                  /\ WithoutAt(blocks', to + 1) = WithoutAt(blocks, from + 1)
                  /\ reorder(blocks', to, from) = blocks
        /\ HandleDragCancel => blocks' = blocks ]_vars

\* a drag has put the block created second in front of the block created first
C3_Witness ==
    /\ lastOp.op = "dragEnd"
    /\ Len(blocks) = 2
    /\ blocks[1].id = BlockId(1)
    /\ blocks[2].id = BlockId(0)

\* C4: updateBlock(id, updates) sets the fields of updates in the content of
\* the blocks with that id and changes nothing else: other content fields,
\* id, type, position, the other blocks, the length; an absent id changes
\* nothing.
C4_UpdateFrame ==
    [][ /\ lastOp'.op = "updateBlock" =>
              LET id == lastOp'.id
                  u == lastOp'.upd
              IN
                  /\ Len(blocks') = Len(blocks)
                  /\ \A k \in 1..Len(blocks) :
                        /\ blocks'[k].id = blocks[k].id
                        /\ blocks'[k].type = blocks[k].type
                        /\ blocks[k].id # id => blocks'[k] = blocks[k]
                        /\ blocks[k].id = id =>
                              /\ DOMAIN blocks'[k].content
                                    = (DOMAIN blocks[k].content) \cup (DOMAIN u)
                              /\ \A f \in DOMAIN u : blocks'[k].content[f] = u[f]
                              /\ \A f \in (DOMAIN blocks[k].content) \ (DOMAIN u) :
                                    blocks'[k].content[f] = blocks[k].content[f]
        /\ \A u \in AllSettingsUpdates : updateBlock(blocks, AbsentId, u) = blocks ]_vars

\* the alignment of one block of two was changed, its default text kept
C4_Witness ==
    /\ lastOp.op = "updateBlock"
    /\ Len(blocks) = 2
    /\ blocks[1].content.alignment = "left"
    /\ blocks[1].content.text = "Add your text content here..."
    /\ blocks[2].content.alignment = "center"

\* C5: a block carries tableData only if it is a table and chartData only
\* if it is a chart.
C5_PayloadMatchesType ==
    \A k \in 1..Len(blocks) :
        /\ "tableData" \in DOMAIN blocks[k].content => blocks[k].type = "table"
        /\ "chartData" \in DOMAIN blocks[k].content => blocks[k].type = "chart"

\* a table and a video block, one of them edited through the settings panel
C5_Witness ==
    /\ lastOp.op = "updateBlock"
    /\ \E k \in 1..Len(blocks) :
          blocks[k].type = "table" /\ "tableData" \in DOMAIN blocks[k].content
    /\ \E k \in 1..Len(blocks) :
          blocks[k].type = "video-embed" /\ blocks[k].content.width = 20

----------------------------------------------------------------------------
(***************************************************************************)
(* Content-section resolver: properties                                    *)
(***************************************************************************)

Rows(data) == { data[k] : k \in 1..Len(data) }

\* C6: the rows a fetch for pagePath P yields are all visible, all of page P
\* when P is not empty, and in ascending display_order; with the empty
\* pagePath they are all the visible rows of the table.
C6_FetchYieldsVisibleOfPage ==
    [][ \A f \in fetches : \A g \in fetches' :
          (g.id = f.id /\ f.state = "sent" /\ g.state = "answered" /\ g.ok) =>
              /\ \A k \in 1..Len(g.data) : g.data[k].visible = TRUE
              /\ f.page # "" => \A k \in 1..Len(g.data) : g.data[k].page_path = f.page
              /\ \A i, j \in 1..Len(g.data) :
                    i < j => g.data[i].display_order <= g.data[j].display_order
              /\ f.page = "" =>
                    /\ Rows(g.data) = { r \in db : r.visible }
                    /\ Len(g.data) = Cardinality({ r \in db : r.visible }) ]_vars

\* a fetch for /products was answered with two rows while the table also
\* holds a hidden row of /products and a visible row of another page
C6_Witness ==
    \E f \in fetches :
        /\ f.state = "answered" /\ f.ok
        /\ f.page = "/products"
        /\ Len(f.data) = 2
        /\ \E r \in db : ~r.visible /\ r.page_path = "/products"
        /\ \E r \in db : r.visible /\ r.page_path = "/about"

\* C7: a fetch that completes successfully replaces the whole section list
\* by its result, so the list is always the result of the fetch that
\* completed successfully last, whatever the order of issue.
C7_LastCompletedWins ==
    /\ [][ \A f \in fetches :
              (Complete(f) /\ f.ok /\ hook = "mounted") => sections' = f.data ]_vars
    /\ [](/\ lastOk.id # 0 => sections = lastOk.data
          /\ (lastDone.id # 0 /\ lastDone.ok) => lastOk.id = lastDone.id)

\* two overlapping fetches of one effect run both succeeded; the one issued
\* first completed last and its result, stale by now, is the list
C7_Witness ==
    /\ hook = "mounted"
    /\ nRuns = 1
    /\ fetches = {}
    /\ nextFetch = 3
    /\ error = Null
    /\ lastDone = [ id |-> 1, ok |-> TRUE ]
    /\ sections = lastOk.data
    /\ sections \notin Ordered(SelectRows(db, pagePath))

\* C8: a fetch that fails records a non-null error string and leaves the
\* section list as it was.
C8_FailureKeepsSections ==
    [][ \A f \in fetches :
          (Complete(f) /\ ~f.ok /\ hook = "mounted") =>
              /\ error' # Null
              /\ error' \in ErrorMessages
              /\ sections' = sections ]_vars

\* a fetch failed after an earlier one had loaded sections
C8_Witness ==
    /\ lastDone.id # 0
    /\ ~lastDone.ok
    /\ error \in ErrorMessages
    /\ Len(sections) > 0

\* C9: a mounted hook holds exactly one subscribed channel and a hook that
\* is not mounted holds none; every effect run subscribes one new channel
\* and leaves no older one; every change event delivered to the subscribed
\* hook makes exactly one call of fetchSections.
C9_OneChannelPerHook ==
    /\ [](/\ hook = "mounted" => Cardinality(channels) = 1
          /\ hook # "mounted" => channels = {})
    /\ [][ /\ nRuns' = nRuns + 1 =>
                \E c \in channels' :
                    /\ c \notin channels
                    /\ channels' = {c}
                    /\ c.page = pagePath'
           /\ (nWrites' = nWrites + 1 /\ hook = "mounted") =>
                /\ nextFetch' = nextFetch + 1
                /\ fetches' = fetches \cup
                      { [ id |-> nextFetch, page |-> pagePath, state |-> "sent",
                          ok |-> FALSE, data |-> <<>>, message |-> "" ] }
           /\ (nWrites' = nWrites + 1 /\ hook # "mounted") =>
                /\ nextFetch' = nextFetch
                /\ fetches' = fetches ]_vars

\* a change event reached the hook after its mount and made the second fetch
C9_Witness ==
    /\ hook = "mounted"
    /\ nRuns = 1
    /\ nWrites = 1
    /\ nextFetch = 3
    /\ Cardinality(channels) = 1
    /\ \E f \in fetches : f.id = 2 /\ f.page = pagePath

----------------------------------------------------------------------------
(***************************************************************************)
(* Document parser: properties                                             *)
(***************************************************************************)

Paragraphs(blks) == SelectSeq(blks, LAMBDA b : b.type = "paragraph")

\* C10: the excerpt of a parsed document has at most 160 characters; it is
\* the first 157 characters of the first paragraph followed by "..." when
\* that paragraph has more than 160 characters, the paragraph itself when it
\* has at most 160, and empty when there is no paragraph.
C10_ExcerptBound ==
    parseState = "parsed" =>
        LET paras == Paragraphs(parsed.blocks)
        IN /\ Len(parsed.excerpt) <= 160
           /\ Len(paras) = 0 => parsed.excerpt = <<>>
           /\ (Len(paras) > 0 /\ Len(paras[1].content) > 160) =>
                 parsed.excerpt = SubSeq(paras[1].content, 1, 157) \o <<".", ".", ".">>
           /\ (Len(paras) > 0 /\ Len(paras[1].content) <= 160) =>
                 parsed.excerpt = paras[1].content

\* a document whose first paragraph has 161 characters was parsed and its
\* excerpt is cut to 160
C10_Witness ==
    /\ parseState = "parsed"
    /\ Len(Paragraphs(parsed.blocks)) > 0
    /\ Len(Paragraphs(parsed.blocks)[1].content) = 161
    /\ Len(parsed.excerpt) = 160
    /\ SubSeq(parsed.excerpt, 158, 160) = <<".", ".", ".">>

\* the trimmed non-blank lines of the text an upload decodes to
UploadLines ==
    LET raw == Split(extractTextFromPdf(upload.buffer))
        solid == SelectSeq(raw, LAMBDA line : Len(Trim(line)) > 0)
    IN [ k \in 1..Len(solid) |-> Trim(solid[k]) ]

\* the line starts with a bullet glyph, a hyphen, or digits followed by a dot
HasListMarker(line) ==
    \/ line[1] = Bullet
    \/ line[1] = "-"
    \/ \E n \in 1..(Len(line) - 1) :
          (\A i \in 1..n : line[i] \in Digits) /\ line[n + 1] = "."

\* C11: in the plain-text path every non-blank line after the title line
\* that starts with a bullet glyph, a hyphen, or digits followed by a dot
\* becomes a list block of its own with exactly one item.
C11_MarkerLinesBecomeLists ==
    (parseState = "parsed" /\ upload.kind = "pdf") =>
        \A k \in 2..Len(UploadLines) :
            HasListMarker(UploadLines[k]) =>
                /\ k <= Len(parsed.blocks)
                /\ parsed.blocks[k].type = "list"
                /\ Len(parsed.blocks[k].items) = 1

\* a marker line that ends in a period was parsed into a one-item list block
C11_ListReached ==
    /\ parseState = "parsed"
    /\ upload.kind = "pdf"
    /\ \E k \in 2..Len(UploadLines) :
          /\ HasListMarker(UploadLines[k])
          /\ parsed.blocks[k].type = "list"
          /\ Len(parsed.blocks[k].items) = 1

ExampleTitle == <<"M", "y", " ", "T", "i", "t", "l", "e">>

ExampleShortLine == <<"S", "h", "o", "r", "t", " ", "L", "i", "n", "e">>

ExampleParagraph ==
    <<"T", "h", "i", "s", " ", "i", "s", " ", "a", " ", "l", "o", "n", "g", "e", "r", " ", "p", "a", "r", "a", "g", "r", "a", "p", "h", " ", "t", "h", "a", "t", " ", "e", "n", "d", "s", " ", "w", "i", "t", "h", " ", "a", " ", "p", "e", "r", "i", "o", "d", ".">>

IsSuffix(t, s) == Len(t) <= Len(s) /\ SubSeq(s, Len(s) - Len(t) + 1, Len(s)) = t

\* C12: in the plain-text path the first non-blank line, trimmed, is the
\* title and the first block, a heading of level 1; every later non-blank
\* line yields exactly one block, in line order; the three-line example
\* yields heading 1, heading 2, paragraph with the paragraph as excerpt; a
\* text without a non-blank line yields "Untitled Document" and no block.
C12_TitleAndOneBlockPerLine ==
    (parseState = "parsed" /\ upload.kind = "pdf") =>
        LET lines == UploadLines
            blks == parsed.blocks
        IN /\ Len(blks) = Len(lines)
           /\ Len(lines) = 0 =>
                 parsed.title = <<"U", "n", "t", "i", "t", "l", "e", "d", " ", "D", "o", "c", "u", "m", "e", "n", "t">>
           /\ Len(lines) > 0 =>
                 /\ parsed.title = lines[1]
                 /\ blks[1] = [ type |-> "heading", level |-> 1,
                                content |-> lines[1], items |-> <<>> ]
           /\ \A k \in 2..Len(lines) :
                 \/ blks[k].type \in {"heading", "paragraph"} /\ blks[k].content = lines[k]
                 \/ /\ blks[k].type = "list"
                    /\ Len(blks[k].items) = 1
                    /\ IsSuffix(blks[k].items[1], lines[k])
           /\ lines = <<ExampleTitle, ExampleShortLine, ExampleParagraph>> =>
                 /\ [ k \in 1..3 |-> <<blks[k].type, blks[k].level>> ]
                        = << <<"heading", 1>>, <<"heading", 2>>, <<"paragraph", 0>> >>
                 /\ parsed.excerpt = ExampleParagraph

\* the three-line example was parsed
C12_Witness ==
    /\ parseState = "parsed"
    /\ upload.kind = "pdf"
    /\ UploadLines = <<ExampleTitle, ExampleShortLine, ExampleParagraph>>
    /\ parsed.title = ExampleTitle
    /\ Len(parsed.blocks) = 3
    /\ parsed.blocks[3].type = "paragraph"
    /\ parsed.excerpt = ExampleParagraph

HeadingTags == {"h1", "h2", "h3", "h4", "h5", "h6"}

InlineOnly(element) == \A k \in 1..Len(element.kids) : element.kids[k].tag = "strong"

\* the body is one top-level heading element and paragraph elements
OneHeadingAndParagraphs(body) ==
    /\ \A k \in 1..Len(body) : body[k].tag \in HeadingTags \cup {"p"} /\ InlineOnly(body[k])
    /\ Cardinality({ k \in 1..Len(body) : body[k].tag \in HeadingTags }) = 1

\* block k is the block of element k, with the element's trimmed text
BlocksFollowElements(blks, body) ==
    /\ Len(blks) = Len(body)
    /\ \A k \in 1..Len(body) :
          /\ blks[k].type = (IF body[k].tag = "p" THEN "paragraph" ELSE "heading")
          /\ blks[k].content = Trim(TextContent(body[k]))

\* C13 as stated: a body of one top-level heading element and N paragraph
\* elements with non-empty text yields one heading block and N paragraph
\* blocks in document order.
C13_OneHeadingNParagraphs ==
    (parseState = "parsed" /\ upload.kind = "word") =>
        LET body == upload.buffer
        IN (/\ OneHeadingAndParagraphs(body)
            /\ \A k \in 1..Len(body) :
                  body[k].tag = "p" => Len(TextContent(body[k])) > 0)
           => BlocksFollowElements(parsed.blocks, body)

\* C13, amended: a body of one top-level heading element and N paragraph
\* elements, each with text that is non-empty after trimming, yields one
\* heading block and N paragraph blocks in document order.
C13_OneHeadingNParagraphsNonBlank ==
    (parseState = "parsed" /\ upload.kind = "word") =>
        LET body == upload.buffer
        IN (/\ OneHeadingAndParagraphs(body)
            /\ \A k \in 1..Len(body) : Len(Trim(TextContent(body[k]))) > 0)
           => BlocksFollowElements(parsed.blocks, body)

\* a paragraph, a heading and another paragraph, all with text, were parsed
\* into three blocks
C13_Witness ==
    /\ parseState = "parsed"
    /\ upload.kind = "word"
    /\ OneHeadingAndParagraphs(upload.buffer)
    /\ \A k \in 1..Len(upload.buffer) : Len(Trim(TextContent(upload.buffer[k]))) > 0
    /\ Len(upload.buffer) = 3
    /\ upload.buffer[2].tag \in HeadingTags
    /\ upload.buffer[1] # upload.buffer[3]
    /\ [ k \in 1..3 |-> parsed.blocks[k].type ] = <<"paragraph", "heading", "paragraph">>

ImageContainer(align) ==
    "<div class=\"image-container\" style=\"text-align: " \o align \o ";\">"

\* the image containers of a rendered markup, in order
Containers(html) ==
    SelectSeq(html, LAMBDA t : t \in {ImageContainer("left"), ImageContainer("right")})

ImageBlocks(blks) == SelectSeq(blks, LAMBDA b : b.type = "image")

\* C14: in the rendered markup the k-th image block, counting image blocks
\* only, is aligned left when k is odd and right when k is even, whatever
\* lies between the images.
C14_ImagesAlternate ==
    parseState = "parsed" =>
        LET boxes == Containers(parsed.content)
        IN /\ Len(boxes) = Len(ImageBlocks(parsed.blocks))
           /\ \A k \in 1..Len(boxes) :
                 boxes[k] = ImageContainer(IF k % 2 = 1 THEN "left" ELSE "right")

\* three images with a paragraph between the first and the second were
\* rendered left, right, left
C14_Witness ==
    /\ parseState = "parsed"
    /\ [ k \in 1..Len(parsed.blocks) |-> parsed.blocks[k].type ]
          = <<"image", "paragraph", "image", "image">>
    /\ Containers(parsed.content)
          = << ImageContainer("left"), ImageContainer("right"), ImageContainer("left") >>

\* C15: in the word-processor path a table element yields exactly one block,
\* of type table and carrying the table's markup; the elements nested in the
\* table yield no block of their own.
C15_TableIsOpaque ==
    (parseState = "parsed" /\ upload.kind = "word") =>
        LET body == upload.buffer
        IN (\A k \in 1..Len(body) : body[k].tag = "table") =>
              /\ Len(parsed.blocks) = Len(body)
              /\ \A k \in 1..Len(body) :
                    /\ parsed.blocks[k].type = "table"
                    /\ parsed.blocks[k].content = OuterHTML(body[k])

\* a body that is one table was parsed and its first block is the table's
\* markup
C15_TableReached ==
    /\ parseState = "parsed"
    /\ upload.kind = "word"
    /\ Len(upload.buffer) = 1
    /\ upload.buffer[1].tag = "table"
    /\ parsed.blocks[1].type = "table"
    /\ parsed.blocks[1].content = OuterHTML(upload.buffer[1])

Placeholder ==
    <<"U", "n", "t", "i", "t", "l", "e", "d", " ", "D", "o", "c", "u", "m", "e", "n", "t">>

\* the elements of the uploaded body that match h1, h2, h3 or strong, in
\* document order
TitleMatches ==
    SelectSeq(Preorder(upload.buffer), LAMBDA n : n.tag \in {"h1", "h2", "h3", "strong"})

\* C16 as stated: the title of a word-processor document is the trimmed text
\* of the first element, in document order, that matches h1, h2, h3 or
\* strong, and it is the placeholder exactly when no element matches.
C16_TitleIsFirstMatch ==
    (parseState = "parsed" /\ upload.kind = "word") =>
        /\ Len(TitleMatches) > 0 => parsed.title = Trim(TextContent(TitleMatches[1]))
        /\ parsed.title = Placeholder <=> Len(TitleMatches) = 0

\* C16, amended: the title is the trimmed text of the first matching element
\* when that text is not empty, and the placeholder when no element matches
\* or the first match has no text but blanks; elements after the first match
\* and the blocks of the document have no say.
C16_TitleIsFirstMatchOrPlaceholder ==
    (parseState = "parsed" /\ upload.kind = "word") =>
        LET text == IF Len(TitleMatches) > 0
                    THEN Trim(TextContent(TitleMatches[1])) ELSE <<>>
        IN /\ Len(text) > 0 => parsed.title = text
           /\ Len(text) = 0 => parsed.title = Placeholder

\* a document whose first match is bold text inside a paragraph, followed by
\* a heading, was parsed: the title is the bold text although the first
\* heading block is another text
C16_Witness ==
    /\ parseState = "parsed"
    /\ upload.kind = "word"
    /\ Len(TitleMatches) > 1
    /\ TitleMatches[1].tag = "strong"
    /\ parsed.title = Trim(TextContent(TitleMatches[1]))
    /\ \E k \in 1..Len(parsed.blocks) :
          parsed.blocks[k].type = "heading" /\ parsed.blocks[k].content # parsed.title

\* C17: a call in which a step raised ends in one error that names the
\* source kind and returns no ParsedDocument; a call that returns a
\* ParsedDocument raised nowhere.
C17_AllOrNothing ==
    /\ raised # "none" =>
          /\ parseState = "failed"
          /\ parsed = NoResult
          /\ parseError = (IF upload.kind = "word"
                           THEN "Failed to parse Word document"
                           ELSE "Failed to parse PDF document")
    /\ parseState = "parsed" => (raised = "none" /\ parseError = Null)
    /\ parseState = "failed" => raised # "none"

\* the walk of a word document with content raised and the call failed
C17_Witness ==
    /\ parseState = "failed"
    /\ upload.kind = "word"
    /\ Len(upload.buffer) > 0
    /\ raised = "parseHtmlContent"
    /\ parseError = "Failed to parse Word document"
    /\ parsed = NoResult

C19_UnmatchedTypeRendersAsText ==
    renderOut # NoTree =>
        /\ (renderItem.kind = "section" /\ renderItem.item.section_type \notin SectionTypes) =>
              /\ renderOut.layout = "text"
              /\ renderOut = renderContent([ renderItem.item EXCEPT !.section_type = "text" ])
        /\ (renderItem.kind = "block" /\ renderItem.item.type \notin BlockTypes) =>
              /\ renderOut.layout = "text"
              /\ renderOut =
                    renderBlockPreview([ renderItem.item EXCEPT !.type = "full-width-text" ])

\* the half of C19 about content sections
C19_UnmatchedSectionRendersAsText ==
    (/\ renderOut # NoTree
     /\ renderItem.kind = "section"
     /\ renderItem.item.section_type \notin SectionTypes) =>
        /\ renderOut.layout = "text"
        /\ renderOut = renderContent([ renderItem.item EXCEPT !.section_type = "text" ])

\* a section of an unhandled type with title, two paragraphs and an image
\* was rendered
C19_SectionReached ==
    /\ renderOut # NoTree
    /\ renderItem.kind = "section"
    /\ renderItem.item.section_type = "gallery"
    /\ Len(renderOut.nodes) = 4

(***************************************************************************)
(* Admin managers: properties                                              *)
(***************************************************************************)

\* the step handles the failed answer to a save or delete request
FailedMutation ==
    /\ lastStep' # lastStep
    /\ ~lastStep'.ok
    /\ lastStep'.op \in {"update", "insert", "delete"}

\* C20: when a save or delete request fails, the list, the form data, the
\* editing target and the dialog flag keep their values, no request is sent
\* again, and exactly one error notification is raised; the list changes
\* only when a fetch is answered.
C20_FailureLeavesStateUnchanged ==
    [][ /\ FailedMutation =>
             /\ list' = list
             /\ formData' = formData
             /\ editingTarget' = editingTarget
             /\ showCreateForm' = showCreateForm
             /\ requests' = { r \in requests : r.id # lastStep'.id }
             /\ nextReq' = nextReq
             /\ Len(toasts') = Len(toasts) + 1
             /\ SubSeq(toasts', 1, Len(toasts)) = toasts
             /\ toasts'[Len(toasts')].title = "Error"
             /\ toasts'[Len(toasts')].variant = "destructive"
        /\ list' # list =>
             (lastStep' # lastStep /\ lastStep'.op = "fetch" /\ lastStep'.ok) ]_vars

\* the update of an edited post has just failed: the dialog is still open on
\* the post, the form still holds the typed title, and the last notification
\* is the error
C20_Witness ==
    /\ lastStep.op = "update"
    /\ ~lastStep.ok
    /\ editingTarget # NoRow
    /\ showCreateForm
    /\ formData.title = NewPost
    /\ Len(list) > 0
    /\ Len(toasts) > 0
    /\ toasts[Len(toasts)] = [ title |-> "Error", description |-> "permission denied",
                                variant |-> "destructive" ]

(***************************************************************************)
(* BlogManager in detail: properties                                       *)
(***************************************************************************)

\* C21: a blog created from the empty form, its title typed one character
\* at a time and its slug field never edited, is inserted with the slug
\* generateSlug derives from the complete title.
C21_SlugFromCompleteTitle ==
    \A r \in requests :
        r.op = "insert" => r.data.key = generateSlug(r.data.title)

\* C22: a user whose role is not 'admin' is offered neither the create form
\* nor the bulk actions, so no insert, migration or featured-article
\* addition is ever sent for that user.
C22_NonAdminCannotAct ==
    userRole # "admin" =>
        /\ ~showCreateForm
        /\ \A r \in requests : r.op \notin {"insert", "migrate", "addFeatured"}

\* every character of the string is white space
IsBlank(str) == \A i \in 1..Len(str) : str[i] \in Whitespace

\* the Save button's disabled attribute
SaveDisabled == Trim(formData.title) = <<>>

ValidationToast ==
    [ title |-> "Validation Error", description |-> "Title is required",
      variant |-> "destructive" ]

\* C23: the save action is disabled exactly while the title is empty or
\* white space only; in that state no step sends an insert or update, and
\* handleSave (which raises the validation notice) leaves the form data,
\* the editing target, the dialog flag and the requests as they are.
C23_NoSaveWithoutTitle ==
    [][ /\ SaveDisabled <=> IsBlank(formData.title)
        /\ SaveDisabled =>
              /\ \A r \in requests' \ requests : r.op \notin {"insert", "update"}
              /\ toasts' = Append(toasts, ValidationToast) =>
                    /\ formData' = formData
                    /\ editingTarget' = editingTarget
                    /\ showCreateForm' = showCreateForm
                    /\ requests' = requests
        /\ toasts' = Append(toasts, ValidationToast) => SaveDisabled ]_vars

\* handleSave was invoked on a title of one blank: the notice is raised, the
\* create form is still open on the blank title and nothing was sent
C23_Witness ==
    /\ formData.title = <<" ">>
    /\ showCreateForm
    /\ SaveDisabled
    /\ Len(toasts) > 0
    /\ toasts[Len(toasts)] = ValidationToast
    /\ \A r \in requests : r.op = "fetch"

\* the post that is being edited, as the table holds it
Persisted == CHOOSE row \in table : row.id = editingTarget.id

AutoSavesInFlight == { r \in requests : r.op = "autosave" }

\* C27 (first part): once every auto-save of the post being edited has been
\* answered successfully, the persisted content is the editor's content.
C27_NewestAutoSaveWins ==
    ( /\ editingTarget # NoRow
      /\ \E row \in table : row.id = editingTarget.id
      /\ AutoSavesInFlight = {}
      /\ autoDone # {}
      /\ \A d \in autoDone : d.ok
      /\ \E d \in autoDone : d.content = formData.content )
    => Persisted.content = formData.content

\* C27 (second part): isAutoSaving is true exactly while an auto-save is in
\* flight.
C27_FlagFollowsFlight == isAutoSaving <=> AutoSavesInFlight # {}

\* C27: both parts
C27_AutoSaveConsistent == C27_NewestAutoSaveWins /\ C27_FlagFollowsFlight

(***************************************************************************)
(* Content-section resolver: overlapping fetches                           *)
(***************************************************************************)

\* C24: for a mounted hook with a non-empty pagePath, once no fetch is in
\* flight (and none has failed) every section held has page_path = pagePath:
\* a late answer for the page shown before cannot replace the result for the
\* current page.
C24_OnlyCurrentPage ==
    ( /\ hook = "mounted"
      /\ pagePath # ""
      /\ fetches = {}
      /\ error = Null )
    => \A k \in 1..Len(sections) : sections[k].page_path = pagePath

\* C25: when the fetch that completed last was successful, error is null.
C25_ErrorFollowsLastFetch ==
    ( /\ hook = "mounted"
      /\ lastDone.id # 0
      /\ lastDone.ok )
    => error = Null

\* C26: for a mounted hook, loading is true exactly while a fetch is in
\* flight, also when fetches overlap.
C26_LoadingFollowsFlight ==
    hook = "mounted" => (loading <=> fetches # {})

\* the part of C26 that holds: the completion that leaves no fetch in flight
\* leaves loading false
C26_LastCompletionClearsLoading ==
    [][ (hook = "mounted" /\ fetches # {} /\ fetches' = {}) => ~loading' ]_vars

(***************************************************************************)
(* Public blog page: properties                                            *)
(***************************************************************************)

Elems(seq) == { seq[k] : k \in 1..Len(seq) }

\* no call of fetchBlogs is in flight and one has taken its result
PageSettled == pageCalls = {} /\ pageDone # {}

\* the parts of C28 about featuredBlogs, the status and the display
C28_FeaturedAndPublished ==
    PageSettled =>
        /\ featuredBlogs = FeaturedOf(pageBlogs)
        /\ \A k \in 1..Len(pageBlogs) : pageBlogs[k].status = "published"
        /\ Len(displayedFeaturedBlogs) <= 3

\* C28: after fetchBlogs has completed, categories is the set of the
\* categories of blogs, featuredBlogs is the featured blogs of blogs in the
\* same order, every blog held is published and at most three featured
\* blogs are displayed.
C28_DerivedStateConsistent ==
    PageSettled =>
        /\ Elems(categories) = { b.category : b \in Elems(pageBlogs) }
        /\ featuredBlogs = FeaturedOf(pageBlogs)
        /\ \A k \in 1..Len(pageBlogs) : pageBlogs[k].status = "published"
        /\ Len(displayedFeaturedBlogs) <= 3

(***************************************************************************)
(* Test-runner panel: properties                                           *)
(***************************************************************************)

\* at most ten reports, the newer before the older
ListInOrder(reports) ==
    /\ Len(reports) <= 10
    /\ \A i, j \in 1..Len(reports) : i < j => reports[i].id > reports[j].id

\* the step is the end of a call of runTests with the given outcome
RunEnds(outcome) == lastRun' # lastRun /\ lastRun'.outcome = outcome

\* C29: the recent-reports list holds at most 10 reports, newest first; a
\* successful run makes its report the current report and the head of the
\* list; a run by a non-admin role invokes nothing and changes neither
\* isRunning, the current report nor the list; a failed run changes neither
\* the current report nor the list; isRunning is false when a run has ended.
C29_RunnerConsistent ==
    [][ /\ ListInOrder(recentReports) /\ ListInOrder(recentReports')
        /\ RunEnds("ok") =>
              /\ currentReport' = [ id |-> lastRun'.id ]
              /\ Len(recentReports') > 0
              /\ recentReports'[1] = currentReport'
              /\ ~isRunning'
        /\ RunEnds("denied") =>
              /\ invocation' = NoRun
              /\ isRunning' = isRunning
              /\ currentReport' = currentReport
              /\ recentReports' = recentReports
        /\ RunEnds("failed") =>
              /\ currentReport' = currentReport
              /\ recentReports' = recentReports
              /\ ~isRunning'
        /\ isRunning' <=> invocation' # NoRun ]_vars

\* the eleventh run has succeeded: the list is full and its first report has
\* left it
C29_Witness ==
    /\ lastRun = [ id |-> 11, outcome |-> "ok" ]
    /\ Len(recentReports) = 10
    /\ recentReports[1] = [ id |-> 11 ]
    /\ recentReports[10] = [ id |-> 2 ]
    /\ currentReport = [ id |-> 11 ]
    /\ ~isRunning

(***************************************************************************)
(* The run-tests function: properties                                      *)
(***************************************************************************)

\* the counts and the duration of a suite are those of its tests
SuiteConsistent(suite) ==
    /\ suite.passed = CountOf(suite.tests, "passed")
    /\ suite.failed = CountOf(suite.tests, "failed")
    /\ suite.skipped = CountOf(suite.tests, "skipped")
    /\ suite.duration = SumOf(suite.tests, "duration")

ReportConsistent(r) ==
    /\ r.totalTests = r.passed + r.failed + r.skipped
    /\ r.totalTests = NumTests(r.suites)
    /\ \A k \in 1..Len(r.suites) : SuiteConsistent(r.suites[k])

\* the part of C30 about simulateTestRun
C30_SimulatedConsistent ==
    (report.answered /\ request.revision = "simulate") =>
        /\ ReportConsistent(report)
        /\ report.coverage.present <=> request.type \in {"coverage", "all"}

\* the simulated report of type 'all': five suites, 35 tests, coverage
C30_SimulatedReached ==
    /\ report.answered
    /\ request.revision = "simulate"
    /\ request.type = "all"
    /\ Len(report.suites) = 5
    /\ report.totalTests = 35
    /\ report.failed = 1
    /\ report.skipped = 1
    /\ report.coverage.present

\* C30: every report the function answers with is consistent: totalTests =
\* passed + failed + skipped = the number of tests over all suites, the
\* counts and the duration of each suite are those of its tests, and a
\* simulated report has coverage exactly for the types 'coverage' and 'all'.
C30_ReportConsistent ==
    report.answered =>
        /\ ReportConsistent(report)
        /\ ~request.vitestResults.given =>
              (report.coverage.present <=> request.type \in {"coverage", "all"})

\* C30 for the converted reports alone
C30_ConvertedConsistent ==
    (report.answered /\ request.vitestResults.given) => ReportConsistent(report)

\* C30 for the report of the revision without vitestResults
C30_RealisticConsistent ==
    (report.answered /\ request.revision = "convert" /\ ~request.vitestResults.given) =>
        /\ ReportConsistent(report)
        /\ report.coverage.present <=> request.type \in {"coverage", "all"}

\* C30 for the report createErrorReport builds
C30_ErrorReportConsistent == ReportConsistent(createErrorReport(2))

====
